---------------------------- MODULE Spec2Model ----------------------------
(***************************************************************************)
(* TrailTag: job orchestration over the CrewAI-memory cache.               *)
(*                                                                         *)
(* Three sub-systems are modelled, each with its own specification over    *)
(* the same variables:                                                     *)
(*   SpecCache  the cache facade (CrewAICacheProvider over                 *)
(*              CrewMemoryStorage) driven by arbitrary set/delete calls;   *)
(*   Spec       the HTTP submission handler, the background workflow       *)
(*              driver run_trailtag_job, the Trailtag pipeline callbacks   *)
(*              and one SSE stream, all sharing the snapshot file;         *)
(*   SpecExec   the CrewExecutor (asyncio tasks + worker threads).         *)
(* SpecFair is Spec with the fairness the schedulers give.                 *)
(***************************************************************************)
EXTENDS Integers, Sequences, FiniteSets, TLC

(***************************************************************************)
(* Bounds of the model                                                     *)
(***************************************************************************)
\* SpecCache: the number of entries saved to the one storage instance.
MaxEntries == 4

(***************************************************************************)
(* Values and their serialisation                                          *)
(***************************************************************************)
\* Python None
None == [kind |-> "none"]

\* A Python str.
Str(s) == [kind |-> "str", s |-> s]

\* A Python dict that is not a job record (an opaque JSON object named d).
Dict(d) == [kind |-> "dict", s |-> d]

\* The number a JSON numeric literal decodes to.
Num(s) == [kind |-> "num", s |-> s]

\* A Python bool, named by its str(): "True" or "False".
Bool(s) == [kind |-> "bool", s |-> s]

\* str(result) for a result that is not a dict or list.
PyStr(v) == IF v.kind = "none" THEN "None" ELSE v.s

\* isinstance(result, (dict, list))
IsDictOrList(v) == v.kind \in {"dict", "job", "map"}

\* Strings whose text is itself a JSON document (json.loads succeeds on them).
JsonLiterals == {"1"}

\* cache_provider.set, the serialisation branch: json.dumps for dict/list,
\* str(result) otherwise.  A content is the text that was stored: the JSON
\* document of v (fmt "json") or the characters of str(v) (fmt "plain").
Serialize(v) ==
  IF IsDictOrList(v) THEN [fmt |-> "json", v |-> v]
                     ELSE [fmt |-> "plain", v |-> Str(PyStr(v))]

\* `if cached_content:` - the empty text is falsy.
Truthy(c) == ~(c.fmt = "plain" /\ c.v.kind = "str" /\ c.v.s = "")

\* json.loads(cached_content), falling back to the raw string on
\* JSONDecodeError.
Decode(c) ==
  IF c.fmt = "json" THEN c.v
  ELSE IF c.v.kind = "str" /\ c.v.s \in JsonLiterals THEN Num(c.v.s)
  ELSE c.v

(***************************************************************************)
(* CrewMemoryStorage / CrewAICacheProvider                                 *)
(***************************************************************************)
\* No ttl given (ttl=None).
NoTtl == 0

\* _generate_key: prefix + md5(query); the hash is modelled as injective.
GenerateKey(q) == "trailtag:" \o q

VARIABLES
  now,        \* time.time(), in seconds since the model's start
  getResp     \* SpecTtl: the last answer of GET /api/jobs/{job_id}

\* The MemoryEntry written by CrewAICacheProvider.set.
SetEntry(q, v, ttl) ==
  [type |-> "cache", key |-> GenerateKey(q), original_query |-> q,
   deleted |-> FALSE, ttl |-> ttl, stored_at |-> now, content |-> Serialize(v)]

\* The MemoryEntry written by CrewAICacheProvider.delete: a tombstone that
\* carries the fingerprint and deleted=True but no original_query.
TombstoneEntry(q) ==
  [type |-> "cache", key |-> GenerateKey(q), original_query |-> "",
   deleted |-> TRUE, ttl |-> NoTtl, content |-> Serialize(Str("DELETED"))]

\* An entry saved by another client of the storage (agent memory): its
\* metadata has no "type".
AgentEntry ==
  [type |-> "absent", key |-> "", original_query |-> "",
   deleted |-> FALSE, ttl |-> NoTtl, content |-> Serialize(Str("note"))]

\* CrewMemoryStorage.save: self.memories[entry_id] = entry.  The dict keeps
\* insertion order, so the pool is a sequence.
StorageSave(mems, entry) == Append(mems, entry)

\* The filter of CrewAICacheProvider.get's scan: a cache entry, not marked
\* deleted, whose original_query or fingerprint matches, with truthy content.
GetMatches(e, q) ==
  /\ e.type = "cache"
  /\ ~e.deleted
  /\ (e.original_query = q \/ e.key = GenerateKey(q))
  /\ Truthy(e.content)

\* The position the scan stops at: memories.items() is walked in insertion
\* order and the first match is returned.
GetIndex(S) == CHOOSE i \in S : \A j \in S : i <= j

\* CrewAICacheProvider.get.  The fallback search for "job:" keys filters the
\* same pool by original_query == query, so it finds nothing the scan missed.
Get(mems, q) ==
  LET hits == {i \in 1..Len(mems) : GetMatches(mems[i], q)}
  IN  IF hits = {} THEN None ELSE Decode(mems[GetIndex(hits)].content)

\* CrewAICacheProvider.exists
Exists(mems, q) == Get(mems, q) # None

(***************************************************************************)
(* State                                                                   *)
(***************************************************************************)
VARIABLES
  memories,   \* SpecCache: CrewMemoryStorage.memories of the one instance
  lastOp,     \* SpecCache: per key, the last facade call ("none","set","delete")
  lastSet,    \* SpecCache: per key, the value of the most recent set
  file,       \* Spec: crew_memory/memories.json, the entries of each key in write order
  submitted,  \* Spec: number of job ids handed out by analyze_video
  jobVideo,   \* Spec: per job id, the video_id it was created for
  pc,         \* Spec: per job id, the position of run_trailtag_job
  dmem,       \* Spec: per job id, the job:{job_id} entries in the pool of the driver's own CacheManager
  outKind,    \* Spec: per job id, the shape of the pipeline's output
  resp,       \* Spec: the last response of analyze_video
  retry_count, \* Spec: per job id, retry_count of its metadata task
  exc,        \* Spec: per job id, the exception run_trailtag_job caught ("none": none yet)
  ssePc,      \* Spec: the SSE stream: "idle", "open" or "closed"
  sseJob,     \* Spec: the job_id the stream was opened for
  sseMem,     \* Spec: the job:{job_id} entries in the pool of the stream's own CacheManager
  sseLast,    \* Spec: (last_phase, last_progress) of event_generator
  sseIter,    \* Spec: the events yielded by the latest polling iteration
  sseSent,    \* Spec: the event types yielded so far
  sseDoneSeen, \* Spec: a done record was written for sseJob while the stream was open
  exStatus,   \* SpecExec: per job id, status of its latest ExecutionJob ("none": no object yet)
  exGen,      \* SpecExec: per job id, the number of ExecutionJob objects created for it
  running_jobs, \* SpecExec: the keys of CrewExecutor.running_jobs
  job_futures,  \* SpecExec: per job id, the state of the Task held in job_futures ("absent": no entry)
  must_cancel,  \* SpecExec: per job id, a cancellation is pending on its Task
  worker,     \* SpecExec: per job id, the run_crew calls handed to the thread pool, oldest first
  exStore,    \* SpecExec: per job id, the entries written under job:{job_id} by the executor's cache
  cancelTrue, \* SpecExec: per job id, cancel_job returned True for its latest ExecutionJob
  exResp,     \* SpecExec: the outcome of the latest submit_job / cancel_job call
  workerPhase, \* SpecExec: per job id and run_crew call, the progress writes the pipeline has made
  pipeStore,  \* SpecExec: per job id, the entries the pipeline wrote under job:{job_id}
  snapshot,   \* SpecStore: the entry ids in memories.json, in file order
  svPool,     \* SpecStore: per storage instance, the ids in its memories dict
  svPc,       \* SpecStore: per caller, its position in save / _persist_memory
  svCount,    \* SpecStore: per caller, the save() calls it has started
  svData,     \* SpecStore: per caller, memories_data as read from the file
  svReturned  \* SpecStore: the ids whose save() call has returned

cacheVars == <<memories, lastOp, lastSet>>
guardVars == <<retry_count, exc>>
jobVars == <<file, submitted, jobVideo, pc, dmem, outKind, resp, guardVars>>
sseVars == <<ssePc, sseJob, sseMem, sseLast, sseIter, sseSent, sseDoneSeen>>
execVars ==
  <<exStatus, exGen, running_jobs, job_futures, must_cancel, worker, exStore,
    cancelTrue, exResp, workerPhase, pipeStore>>
storeVars == <<snapshot, svPool, svPc, svCount, svData, svReturned>>
clockVars == <<now, getResp>>

VARIABLES
  job_memories,     \* SpecMem: CrewMemoryManager.job_memories, per job id
  analysis_results, \* SpecMem: the video ids in CrewMemoryManager.analysis_results
  mgrMemories,      \* SpecMem: the entry ids in memory_storage.memories
  jobFile,          \* SpecMem: job_memories.json
  analysisFile,     \* SpecMem: analysis_results.json
  memFile,          \* SpecMem: crew_memory/memories.json
  crewDir,          \* SpecMem: the directory crew_memory exists
  mgrPc,            \* SpecMem: where the caller of the manager is
  mgrArgs,          \* SpecMem: the arguments of the save_job_progress under way
  mgrSaves          \* SpecMem: memory_storage.save calls made so far

memVars ==
  <<job_memories, analysis_results, mgrMemories, jobFile, analysisFile, memFile,
    crewDir, mgrPc, mgrArgs, mgrSaves>>
VARIABLES
  agent_memories,   \* CrewMemoryManager.agent_memories: per role, the entries in order
  agentFile,        \* agent_memories.json
  agentResp         \* what the last query_agent_memories returned

agentVars == <<agent_memories, agentFile, agentResp>>

VARIABLES
  lockOwner,   \* CrewExecutor._lock: the thread that holds it, or "none"
  lockDepth,   \* how many times its owner has acquired the RLock
  lkPc,        \* per thread: where its current executor call is
  lkOpn,       \* per thread: the executor operation under way
  lkArg,       \* per thread: the job_id argument of the operation
  lkTodo,      \* per thread: the futures shutdown has still to cancel
  lkOps,       \* per thread: the calls made so far
  lkRunning,   \* running_jobs (its keys)
  lkFutures,   \* job_futures (its keys)
  lkTask,      \* per job: the state of its _execute_job task
  lkLoop,      \* per job: the thread whose event loop runs the task
  lkWorkers,   \* the jobs whose run_crew is running in the pool
  lkPool       \* the ThreadPoolExecutor: "open" or "shutdown"

lockVars ==
  <<lockOwner, lockDepth, lkPc, lkOpn, lkArg, lkTodo, lkOps, lkRunning,
    lkFutures, lkTask, lkLoop, lkWorkers, lkPool>>

VARIABLES
  bkTokens,     \* TokenBucket.tokens, in units of 1/TicksPerSecond token
  bkTimestamp,  \* TokenBucket.timestamp, in ticks
  bkNow,        \* time.monotonic(), in ticks
  bkAdmitted,   \* per tick: the requests admitted at that instant
  bkResult      \* per caller: what its last _run got from the bucket

bucketVars == <<bkTokens, bkTimestamp, bkNow, bkAdmitted, bkResult>>

VARIABLES
  chunk_progresses,  \* TaskProgress.chunk_progresses: per chunk, status and retry_count
  task_status,       \* TaskProgress.status
  futures,           \* per chunk: the state of its _process_single_chunk future
  retry_indices,     \* _handle_retries: the chunks it has still to retry
  invocations,       \* per chunk: calls of processing_function in the current call
  trackerPc,         \* where process_chunks_with_function is
  processCalls       \* calls of process_chunks_with_function on the task so far

chunkVars ==
  <<chunk_progresses, task_status, futures, retry_indices, invocations,
    trackerPc, processCalls>>

vars == <<cacheVars, jobVars, sseVars, execVars, storeVars, clockVars, memVars, agentVars, lockVars, bucketVars, chunkVars>>

(***************************************************************************)
(* SpecCache: the cache facade under arbitrary calls                       *)
(***************************************************************************)
CacheKeys == {"k1", "k2"}
CacheValues ==
  {Str("a"), Str("b"), Str("1"), Str(""), Dict("d1"), Num("1"), Bool("True"), None}
Ttls == {NoTtl, 60}

InitCache ==
  /\ memories = <<>>
  /\ lastOp = [k \in CacheKeys |-> "none"]
  /\ lastSet = [k \in CacheKeys |-> None]

\* cache.set(k, v, ttl=t)
CacheSet(k, v, t) ==
  /\ Len(memories) < MaxEntries
  /\ memories' = StorageSave(memories, SetEntry(k, v, t))
  /\ lastOp' = [lastOp EXCEPT ![k] = "set"]
  /\ lastSet' = [lastSet EXCEPT ![k] = v]
  /\ UNCHANGED <<jobVars, sseVars, execVars, storeVars, clockVars, memVars, agentVars, lockVars, bucketVars, chunkVars>>

\* cache.delete(k)
CacheDelete(k) ==
  /\ Len(memories) < MaxEntries
  /\ memories' = StorageSave(memories, TombstoneEntry(k))
  /\ lastOp' = [lastOp EXCEPT ![k] = "delete"]
  /\ UNCHANGED <<lastSet, jobVars, sseVars, execVars, storeVars, clockVars, memVars, agentVars, lockVars, bucketVars, chunkVars>>

\* Another client saves to the same storage.
AgentSave ==
  /\ Len(memories) < MaxEntries
  /\ memories' = StorageSave(memories, AgentEntry)
  /\ UNCHANGED <<lastOp, lastSet, jobVars, sseVars, execVars, storeVars, clockVars, memVars, agentVars, lockVars, bucketVars, chunkVars>>

NextCache ==
  \/ \E k \in CacheKeys, v \in CacheValues, t \in Ttls : CacheSet(k, v, t)
  \/ \E k \in CacheKeys : CacheDelete(k)
  \/ AgentSave

(***************************************************************************)
(* Spec: submission handler, workflow driver, pipeline callbacks, stream   *)
(***************************************************************************)
\* uuid.uuid4(): the job ids handed out, in order.
JobSeq == <<"j1", "j2">>
JobName(n) == JobSeq[n]
JobIds == {JobSeq[n] : n \in 1..Len(JobSeq)}
Videos == {"v1", "v2"}
NoVideo == "-"

JobKey(j) == "job:" \o j
VideoJobKey(v) == "video_job:" \o v
AnalysisKey(v) == "analysis:" \o v
FileKeys ==
  {JobKey(j) : j \in JobIds} \cup {VideoJobKey(v) : v \in Videos}
    \cup {AnalysisKey(v) : v \in Videos}

\* A pool with no entries (memories.json absent).
EmptyStore == [k \in FileKeys |-> <<>>]

\* CrewMemoryStorage._load_memories: a new CacheManager starts from the
\* entries of the snapshot file.
LoadMemories(f) == f

\* The part of a long-lived instance's pool that its owner reads: the
\* entries of one key, as loaded when the instance was built.
LoadKey(f, k) == LoadMemories(f)[k]

\* CrewMemoryStorage.save on a pool kept per key (get never relates entries
\* of different keys, see GetMatches).
SaveTo(store, k, entry) == [store EXCEPT ![k] = StorageSave(@, entry)]

\* cache.get(k) on an instance whose pool is store.
CacheGet(store, k) == Get(store[k], k)

\* The job record has no "error" key.
NoError == [type |-> "none", message |-> ""]

\* max_retries=3 of video_metadata_extraction_task.
max_retries == 3

\* What the guardrail answers for an output without subtitles.
GuardrailError == "subtitles missing"

\* str(e) of the exception caught by run_trailtag_job: the Task's guardrail
\* failure carries the guardrail's last error, any other exception its own
\* text.
ExcStr(e) ==
  IF e = "guardrail"
  THEN "Task failed guardrail validation after 3 retries. Last error: " \o GuardrailError
  ELSE "error"

\* What analyze_video answers: the status code, and the JobResponse fields of
\* a 200 (a 422 carries only video_id, in its detail).
Response(code, j, v, status, phase, progress, cached) ==
  [code |-> code, job_id |-> j, video_id |-> v, status |-> status,
   phase |-> phase, progress |-> progress, cached |-> cached]

\* The JSON object stored under job:{job_id}.
JobRec(j, v, status, phase, progress, cached, error) ==
  [kind |-> "job", job_id |-> j, video_id |-> v, status |-> status,
   phase |-> phase, progress |-> progress, cached |-> cached, error |-> error]

\* job = existing_job or {}; job.update({...}); job.update(extra): every
\* listed field is overwritten, `error` survives from the record read.
UpdatedJob(existing, j, v, phase, progress, status, errType) ==
  JobRec(j, v, status, phase, progress, FALSE,
         IF errType # "none" THEN [type |-> errType, message |-> ExcStr(exc[j])]
         ELSE IF existing.kind = "job" THEN existing.error ELSE NoError)

\* MapVisualization.model_dump() of the pipeline's result for video v.
MapOf(v) == [kind |-> "map", s |-> v]

\* {"raw_output": str(output.raw), "video_id": video_id}
RawOf(v) == [kind |-> "dict", s |-> "raw_output:" \o v]

TerminalStatus == {"done", "failed", "canceled"}

InitJobs ==
  /\ file = EmptyStore
  /\ submitted = 0
  /\ jobVideo = [j \in JobIds |-> NoVideo]
  /\ pc = [j \in JobIds |-> "idle"]
  /\ dmem = [j \in JobIds |-> <<>>]
  /\ outKind = [j \in JobIds |-> "unset"]
  /\ resp = Response(0, "", NoVideo, "", "none", 0, FALSE)
  /\ retry_count = [j \in JobIds |-> 0]
  /\ exc = [j \in JobIds |-> "none"]

InitSse ==
  /\ ssePc = "idle"
  /\ sseJob = ""
  /\ sseMem = <<>>
  /\ sseLast = <<"unset", -1>>
  /\ sseIter = <<>>
  /\ sseSent = {}
  /\ sseDoneSeen = FALSE

\* check_subtitle_availability without its cache lookup: the probe alone.
SubtitleAvailable_ProbeOnly(f, v, probe) ==
  probe

\* check_subtitle_availability: a cached analysis means available; otherwise
\* the YouTube metadata tool decides (probe).
SubtitleAvailable(f, v, probe) ==
  IF CacheGet(LoadMemories(f), AnalysisKey(v)) # None THEN TRUE ELSE probe

\* The stream's history flag: a done record for the streamed job reaches the
\* file while the stream is open.
NoteDone(j, status) ==
  sseDoneSeen' = (sseDoneSeen \/ (ssePc = "open" /\ sseJob = j /\ status = "done"))

\* POST /api/videos/analyze, no subtitles, with the job record written before
\* the availability check.
AnalyzeNoSubtitles_WritesJob(v, probe) ==
  LET j == JobName(submitted + 1)
      job == JobRec(j, v, "queued", "none", 0, FALSE, NoError)
  IN  /\ submitted < Len(JobSeq)
      /\ ~SubtitleAvailable(file, v, probe)
      /\ file' = SaveTo(file, JobKey(j), SetEntry(JobKey(j), job, NoTtl))
      /\ resp' = Response(422, "", v, "", "none", 0, FALSE)
      /\ UNCHANGED <<submitted, jobVideo, pc, dmem, outKind>>
      /\ UNCHANGED <<execVars, storeVars, clockVars, memVars, agentVars, lockVars, bucketVars, chunkVars, guardVars, cacheVars, sseVars>>

\* POST /api/videos/analyze, no subtitles: 422 before anything is written.
AnalyzeNoSubtitles(v, probe) ==
  /\ submitted < Len(JobSeq)
  /\ ~SubtitleAvailable(file, v, probe)
  /\ resp' = Response(422, "", v, "", "none", 0, FALSE)
  /\ UNCHANGED <<file, submitted, jobVideo, pc, dmem, outKind>>
  /\ UNCHANGED <<execVars, storeVars, clockVars, memVars, agentVars, lockVars, bucketVars, chunkVars, guardVars, cacheVars, sseVars>>

\* POST /api/videos/analyze, analysis:{video_id} hit: a synthetic done job
\* and the video->job mapping are stored with ttl=60; nothing is dispatched.
AnalyzeCached(v, probe) ==
  LET j == JobName(submitted + 1)
      job == JobRec(j, v, "done", "geocode", 100, TRUE, NoError)
  IN  /\ submitted < Len(JobSeq)
      /\ SubtitleAvailable(file, v, probe)
      /\ CacheGet(LoadMemories(file), AnalysisKey(v)) # None
      /\ file' = SaveTo(SaveTo(file, JobKey(j), SetEntry(JobKey(j), job, 60)),
                        VideoJobKey(v), SetEntry(VideoJobKey(v), Str(j), 60))
      /\ submitted' = submitted + 1
      /\ jobVideo' = [jobVideo EXCEPT ![j] = v]
      /\ pc' = [pc EXCEPT ![j] = "cached"]
      /\ resp' = Response(200, j, v, job.status, job.phase, job.progress, job.cached)
      /\ NoteDone(j, "done")
      /\ UNCHANGED <<dmem, outKind>>
      /\ UNCHANGED <<execVars, storeVars, clockVars, memVars, agentVars, lockVars, bucketVars, chunkVars, guardVars, cacheVars, ssePc, sseJob, sseMem, sseLast, sseIter, sseSent>>

\* POST /api/videos/analyze, miss: a queued job and the mapping are stored
\* and run_trailtag_job is handed to the background tasks.
AnalyzeNew(v, probe) ==
  LET j == JobName(submitted + 1)
      job == JobRec(j, v, "queued", "none", 0, FALSE, NoError)
  IN  /\ submitted < Len(JobSeq)
      /\ SubtitleAvailable(file, v, probe)
      /\ CacheGet(LoadMemories(file), AnalysisKey(v)) = None
      /\ file' = SaveTo(SaveTo(file, JobKey(j), SetEntry(JobKey(j), job, NoTtl)),
                        VideoJobKey(v), SetEntry(VideoJobKey(v), Str(j), NoTtl))
      /\ submitted' = submitted + 1
      /\ jobVideo' = [jobVideo EXCEPT ![j] = v]
      /\ pc' = [pc EXCEPT ![j] = "start"]
      /\ resp' = Response(200, j, v, job.status, job.phase, job.progress, job.cached)
      /\ UNCHANGED <<dmem, outKind>>
      /\ UNCHANGED <<execVars, storeVars, clockVars, memVars, agentVars, lockVars, bucketVars, chunkVars, guardVars, cacheVars, sseVars>>

\* run_trailtag_job: cache = get_cache()
DriverStart(j) ==
  /\ pc[j] = "start"
  /\ dmem' = [dmem EXCEPT ![j] = LoadKey(file, JobKey(j))]
  /\ pc' = [pc EXCEPT ![j] = "run0"]
  /\ UNCHANGED <<file, submitted, jobVideo, outKind, resp>>
  /\ UNCHANGED <<execVars, storeVars, clockVars, memVars, agentVars, lockVars, bucketVars, chunkVars, guardVars, cacheVars, sseVars>>

\* run_trailtag_job.update_job(phase, progress, status, extra, ttl): reads
\* job:{job_id} through the driver's own instance, writes the updated record
\* to that instance and to the file.
UpdateJob(j, phase, progress, status, errType, ttl, next) ==
  LET existing == Get(dmem[j], JobKey(j))
      job == UpdatedJob(existing, j, jobVideo[j], phase, progress, status, errType)
      entry == SetEntry(JobKey(j), job, ttl)
  IN  /\ dmem' = [dmem EXCEPT ![j] = StorageSave(@, entry)]
      /\ file' = SaveTo(file, JobKey(j), entry)
      /\ pc' = [pc EXCEPT ![j] = next]
      /\ NoteDone(j, status)
      /\ UNCHANGED <<submitted, jobVideo, outKind, resp>>
      /\ UNCHANGED <<execVars, storeVars, clockVars, memVars, agentVars, lockVars, bucketVars, chunkVars, cacheVars, ssePc, sseJob, sseMem, sseLast, sseIter, sseSent>>

\* The three updates of run_trailtag_job before kickoff.
DriverRunning(j) ==
  \/ pc[j] = "run0" /\ UpdateJob(j, "metadata", 0, "running", "none", NoTtl, "run25")
                    /\ UNCHANGED guardVars
  \/ pc[j] = "run25" /\ UpdateJob(j, "metadata", 25, "running", "none", NoTtl, "run50")
                     /\ UNCHANGED guardVars
  \/ pc[j] = "run50" /\ UpdateJob(j, "processing", 50, "running", "none", NoTtl, "k_start")
                     /\ UNCHANGED guardVars

\* Trailtag._update_job_progress(phase, progress, status): a new CacheManager
\* per call, so the read and the write go to the file's entries.
UpdateJobProgress(j, phase, progress, status, next) ==
  LET existing == CacheGet(LoadMemories(file), JobKey(j))
      job == UpdatedJob(existing, j, jobVideo[j], phase, progress, status, "none")
  IN  /\ file' = SaveTo(file, JobKey(j), SetEntry(JobKey(j), job, NoTtl))
      /\ pc' = [pc EXCEPT ![j] = next]
      /\ NoteDone(j, status)
      /\ UNCHANGED <<submitted, jobVideo, dmem, resp>>
      /\ UNCHANGED <<execVars, storeVars, clockVars, memVars, agentVars, lockVars, bucketVars, chunkVars, cacheVars, ssePc, sseJob, sseMem, sseLast, sseIter, sseSent>>

\* ObserverWrappedCrew.kickoff: the two updates before the crew runs.
KickoffStart(j) ==
  /\ \/ pc[j] = "k_start" /\ UpdateJobProgress(j, "starting", 5, "running", "k_meta")
     \/ pc[j] = "k_meta" /\ UpdateJobProgress(j, "metadata_started", 10, "running", "t1")
  /\ UNCHANGED <<outKind, guardVars>>

\* Trailtag._task_callback after the metadata and the summary task.  The
\* metadata task's retry_count is read only while that task runs; the model
\* drops it when the task has ended.
TaskCallback(j) ==
  /\ \/ pc[j] = "t1" /\ UpdateJobProgress(j, "metadata_completed", 30, "running", "t2")
     \/ pc[j] = "t2" /\ UpdateJobProgress(j, "summary_completed", 70, "running", "t3")
  /\ retry_count' = [retry_count EXCEPT ![j] = 0]
  /\ UNCHANGED <<outKind, exc>>

\* _task_callback after the visualization task, had it reported done at 90.
FinalCallback_DoneAt90(j, kind) ==
  /\ pc[j] = "t3"
  /\ UpdateJobProgress(j, "geocode_completed", 90, "done", "t3store")
  /\ outKind' = [outKind EXCEPT ![j] = kind]
  /\ UNCHANGED guardVars

\* Trailtag._task_callback after the visualization task: status done is
\* written first; kind is the shape of the task's output.
FinalCallback(j, kind) ==
  /\ pc[j] = "t3"
  /\ UpdateJobProgress(j, "geocode_completed", 100, "done", "t3store")
  /\ outKind' = [outKind EXCEPT ![j] = kind]
  /\ UNCHANGED guardVars

\* Trailtag._store_map_routes_result: skipped when output.pydantic is None,
\* otherwise analysis:{video_id} is written through a new CacheManager.
StoreMapRoutes(j) ==
  LET k == AnalysisKey(jobVideo[j])
  IN  /\ pc[j] = "t3store"
      /\ file' = IF outKind[j] = "pydantic"
                 THEN SaveTo(file, k, SetEntry(k, MapOf(jobVideo[j]), NoTtl))
                 ELSE file
      /\ pc' = [pc EXCEPT ![j] = "k_end"]
      /\ UNCHANGED <<submitted, jobVideo, dmem, outKind, resp>>
      /\ UNCHANGED <<execVars, storeVars, clockVars, memVars, agentVars, lockVars, bucketVars, chunkVars, guardVars, cacheVars, sseVars>>

\* crew.kickoff returns its CrewOutput to run_trailtag_job.
KickoffReturn(j) ==
  /\ pc[j] = "k_end"
  /\ pc' = [pc EXCEPT ![j] = "done100"]
  /\ UNCHANGED <<file, submitted, jobVideo, dmem, outKind, resp>>
  /\ UNCHANGED <<execVars, storeVars, clockVars, memVars, agentVars, lockVars, bucketVars, chunkVars, guardVars, cacheVars, sseVars>>

\* crew.kickoff raises: inside a task (before its callback), or after the
\* last callback while the crew finishes (writing the task's output_file,
\* building the CrewOutput, on_crew_complete); ObserverWrappedCrew.kickoff
\* re-raises into run_trailtag_job's except branch.
KickoffRaise(j) ==
  /\ pc[j] \in {"t1", "t2", "t3", "k_end"}
  /\ pc' = [pc EXCEPT ![j] = "fail"]
  /\ exc' = [exc EXCEPT ![j] = "error"]
  /\ UNCHANGED <<file, submitted, jobVideo, dmem, outKind, resp, retry_count>>
  /\ UNCHANGED <<execVars, storeVars, clockVars, memVars, agentVars, lockVars, bucketVars, chunkVars, cacheVars, sseVars>>

\* The metadata task's output has no subtitles and the guardrail rejects
\* it: the task is executed again while retry_count < max_retries, and
\* raises out of kickoff once the retries are used up.
GuardrailReject(j) ==
  /\ pc[j] = "t1"
  /\ IF retry_count[j] < max_retries
     THEN /\ retry_count' = [retry_count EXCEPT ![j] = @ + 1]
          /\ UNCHANGED <<pc, exc>>
     ELSE /\ pc' = [pc EXCEPT ![j] = "fail"]
          /\ exc' = [exc EXCEPT ![j] = "guardrail"]
          /\ UNCHANGED retry_count
  /\ UNCHANGED <<file, submitted, jobVideo, dmem, outKind, resp>>
  /\ UNCHANGED <<execVars, storeVars, clockVars, memVars, agentVars, lockVars, bucketVars, chunkVars, cacheVars, sseVars>>

\* run_trailtag_job after kickoff: update_job("geocode", 100, DONE, ttl=60)
DriverDone(j) ==
  /\ pc[j] = "done100"
  /\ UpdateJob(j, "geocode", 100, "done", "none", 60, "store")
  /\ UNCHANGED guardVars

\* run_trailtag_job: the result goes to analysis:{video_id}, by the shape of
\* the output (pydantic dump, else the raw text wrapped in a dict).
DriverStore(j) ==
  LET k == AnalysisKey(jobVideo[j])
      v == IF outKind[j] = "pydantic" THEN MapOf(jobVideo[j]) ELSE RawOf(jobVideo[j])
      entry == SetEntry(k, v, NoTtl)
  IN  /\ pc[j] = "store"
      /\ file' = SaveTo(file, k, entry)
      /\ pc' = [pc EXCEPT ![j] = "unmap"]
      /\ UNCHANGED <<submitted, jobVideo, dmem, outKind, resp>>
      /\ UNCHANGED <<execVars, storeVars, clockVars, memVars, agentVars, lockVars, bucketVars, chunkVars, guardVars, cacheVars, sseVars>>

\* run_trailtag_job, except branch: update_job("geocode", 0, FAILED,
\* extra={"error": {"type": "exception", "message": str(e)}}); e is unbound
\* when the branch ends and the crew with its tasks is dropped.
DriverFail(j) ==
  /\ pc[j] = "fail"
  /\ UpdateJob(j, "geocode", 0, "failed", "exception", NoTtl, "unmap")
  /\ exc' = [exc EXCEPT ![j] = "none"]
  /\ retry_count' = [retry_count EXCEPT ![j] = 0]

\* run_trailtag_job: cache.delete(f"video_job:{video_id}"), on both paths;
\* the function returns and its CacheManager is dropped.
DriverUnmap(j) ==
  LET k == VideoJobKey(jobVideo[j])
  IN  /\ pc[j] = "unmap"
      /\ file' = SaveTo(file, k, TombstoneEntry(k))
      /\ dmem' = [dmem EXCEPT ![j] = <<>>]
      /\ pc' = [pc EXCEPT ![j] = "finished"]
      /\ UNCHANGED <<submitted, jobVideo, outKind, resp>>
      /\ UNCHANGED <<execVars, storeVars, clockVars, memVars, agentVars, lockVars, bucketVars, chunkVars, guardVars, cacheVars, sseVars>>

\* GET /api/jobs/{job_id}/stream: event_generator builds its CacheManager.
SseOpen(j) ==
  /\ ssePc = "idle"
  /\ ssePc' = "open"
  /\ sseJob' = j
  /\ sseMem' = LoadKey(file, JobKey(j))
  /\ UNCHANGED <<sseLast, sseIter, sseSent, sseDoneSeen>>
  /\ UNCHANGED <<execVars, storeVars, clockVars, memVars, agentVars, lockVars, bucketVars, chunkVars, guardVars, cacheVars, jobVars>>

\* An iteration that sends a heartbeat before reporting a missing job.
IterEvents_HeartbeatOnMissing(job, last) ==
  IF job = None THEN <<"heartbeat", "error">>
  ELSE (IF <<job.phase, job.progress>> # last THEN <<"phase_update">> ELSE <<>>)
       \o (IF job.status = "done" THEN <<"completed">>
           ELSE IF job.status \in {"failed", "canceled"} THEN <<"error">>
           ELSE <<"heartbeat">>)

\* An iteration whose comparison with the last pair is inverted.
IterEvents_UpdateWhenSame(job, last) ==
  IF job = None THEN <<"error">>
  ELSE (IF <<job.phase, job.progress>> = last THEN <<"phase_update">> ELSE <<>>)
       \o (IF job.status = "done" THEN <<"completed">>
           ELSE IF job.status \in {"failed", "canceled"} THEN <<"error">>
           ELSE <<"heartbeat">>)

\* An iteration that yields its heartbeat before looking at the status.
IterEvents_HeartbeatFirst(job, last) ==
  IF job = None THEN <<"error">>
  ELSE (IF <<job.phase, job.progress>> # last THEN <<"phase_update">> ELSE <<>>)
       \o (IF job.status = "done" THEN <<"completed", "heartbeat">>
           ELSE IF job.status \in {"failed", "canceled"} THEN <<"error", "heartbeat">>
           ELSE <<"heartbeat">>)

\* The events one iteration of event_generator's loop yields for the record
\* job read from the cache.
IterEvents(job, last) ==
  IF job = None THEN <<"error">>
  ELSE (IF <<job.phase, job.progress>> # last THEN <<"phase_update">> ELSE <<>>)
       \o (IF job.status = "done" THEN <<"completed">>
           ELSE IF job.status \in {"failed", "canceled"} THEN <<"error">>
           ELSE <<"heartbeat">>)

\* One iteration of event_generator's while loop (between two sleeps).
SsePoll ==
  LET job == Get(sseMem, JobKey(sseJob))
      evs == IterEvents(job, sseLast)
      stop == job = None \/ job.status \in TerminalStatus
  IN  /\ ssePc = "open"
      /\ sseIter' = evs
      /\ sseSent' = sseSent \cup {evs[i] : i \in 1..Len(evs)}
      /\ sseLast' = IF job = None THEN sseLast ELSE <<job.phase, job.progress>>
      /\ ssePc' = IF stop THEN "closed" ELSE "open"
      /\ sseMem' = IF stop THEN <<>> ELSE sseMem
      /\ UNCHANGED <<sseJob, sseDoneSeen>>
      /\ UNCHANGED <<execVars, storeVars, clockVars, memVars, agentVars, lockVars, bucketVars, chunkVars, guardVars, cacheVars, jobVars>>

NextJobs ==
  \/ \E v \in Videos, probe \in BOOLEAN : AnalyzeNoSubtitles(v, probe)
  \/ \E v \in Videos, probe \in BOOLEAN : AnalyzeCached(v, probe)
  \/ \E v \in Videos, probe \in BOOLEAN : AnalyzeNew(v, probe)
  \/ \E j \in JobIds : DriverStart(j)
  \/ \E j \in JobIds : DriverRunning(j)
  \/ \E j \in JobIds : KickoffStart(j)
  \/ \E j \in JobIds : TaskCallback(j)
  \/ \E j \in JobIds, kind \in {"pydantic", "raw"} : FinalCallback(j, kind)
  \/ \E j \in JobIds : StoreMapRoutes(j)
  \/ \E j \in JobIds : KickoffReturn(j)
  \/ \E j \in JobIds : KickoffRaise(j)
  \/ \E j \in JobIds : GuardrailReject(j)
  \/ \E j \in JobIds : DriverDone(j)
  \/ \E j \in JobIds : DriverStore(j)
  \/ \E j \in JobIds : DriverFail(j)
  \/ \E j \in JobIds : DriverUnmap(j)
  \/ \E j \in JobIds : SseOpen(j)
  \/ SsePoll


(***************************************************************************)
(* SpecExec: CrewExecutor - submit, the job's task, the pool thread, cancel *)
(***************************************************************************)
\* ExecutionJob objects created per job id in a run of the model.
MaxRuns == 2

\* The progress writes of the pipeline that are followed per run_crew call
\* (a full kickoff makes Len(PipelineWrites) of them).
MaxPipeWrites == 1

ExecIds == {"e1", "e2"}

\* The (phase, progress, status) the pipeline writes through
\* _update_job_progress during one kickoff, in order.
PipelineWrites ==
  <<[phase |-> "starting", progress |-> 5, status |-> "running"],
    [phase |-> "metadata_started", progress |-> 10, status |-> "running"],
    [phase |-> "metadata_completed", progress |-> 30, status |-> "running"],
    [phase |-> "summary_completed", progress |-> 70, status |-> "running"],
    [phase |-> "geocode_completed", progress |-> 100, status |-> "done"]>>

\* The progress reports the latest run_crew call of job j has made through
\* internal_callback, which assigns job.progress and job.phase.
ReportsMade(j) ==
  IF Len(workerPhase[j]) = 0 THEN 0 ELSE workerPhase[j][Len(workerPhase[j])]

\* ExecutionJob.phase and .progress when the job is stored with status:
\* "initializing"/0.0 from the dataclass defaults, "starting" from the first
\* lines of _execute_job, "completed"/100.0 after a result, and otherwise
\* what the last progress report left in the object.
ExecPhase(j, status) ==
  CASE status = "pending" -> "initializing"
    [] status = "running" -> "starting"
    [] status = "completed" -> "completed"
    [] OTHER -> IF ReportsMade(j) = 0 THEN "starting"
                ELSE PipelineWrites[ReportsMade(j)].phase
ExecProgress(j, status) ==
  CASE status \in {"pending", "running"} -> 0
    [] status = "completed" -> 100
    [] OTHER -> IF ReportsMade(j) = 0 THEN 0
                ELSE PipelineWrites[ReportsMade(j)].progress

\* ExecutionJob.to_dict(), the fields the model follows.
ExecRec(j, status) ==
  [kind |-> "job", job_id |-> j, status |-> status,
   phase |-> ExecPhase(j, status), progress |-> ExecProgress(j, status)]

\* CrewExecutor._store_job: self.cache.set("job:{job_id}", job.to_dict()).
StoreJob(store, j, status) ==
  StorageSave(store, SetEntry("job:" \o j, ExecRec(j, status), NoTtl))

\* The state of the latest run_crew call of job j ("none" before the first).
CurrentWorker(j) ==
  IF Len(worker[j]) = 0 THEN "none" ELSE worker[j][Len(worker[j])]

InitExec ==
  /\ exStatus = [j \in ExecIds |-> "none"]
  /\ exGen = [j \in ExecIds |-> 0]
  /\ running_jobs = {}
  /\ job_futures = [j \in ExecIds |-> "absent"]
  /\ must_cancel = [j \in ExecIds |-> FALSE]
  /\ worker = [j \in ExecIds |-> <<>>]
  /\ exStore = [j \in ExecIds |-> <<>>]
  /\ cancelTrue = [j \in ExecIds |-> FALSE]
  /\ exResp = [op |-> "none", job_id |-> "", ok |-> FALSE]
  /\ workerPhase = [j \in ExecIds |-> <<>>]
  /\ pipeStore = [j \in ExecIds |-> <<>>]

\* submit_job with a job_id that is in running_jobs: ValueError.
SubmitDuplicate(j) ==
  /\ j \in running_jobs
  /\ exResp' = [op |-> "submit", job_id |-> j, ok |-> FALSE]
  /\ UNCHANGED <<exStatus, exGen, running_jobs, job_futures, must_cancel,
                 worker, exStore, cancelTrue>>
  /\ UNCHANGED <<storeVars, clockVars, memVars, agentVars, lockVars, bucketVars, chunkVars, cacheVars, jobVars, sseVars, workerPhase, pipeStore>>

\* submit_job otherwise: a PENDING ExecutionJob is stored, entered in
\* running_jobs, and a Task for _execute_job is created and kept in
\* job_futures.  Nothing in it suspends, so it is one step of the loop.
SubmitJob(j) ==
  /\ j \notin running_jobs
  /\ exGen[j] < MaxRuns
  /\ exGen' = [exGen EXCEPT ![j] = @ + 1]
  /\ exStatus' = [exStatus EXCEPT ![j] = "pending"]
  /\ exStore' = [exStore EXCEPT ![j] = StoreJob(@, j, "pending")]
  /\ running_jobs' = running_jobs \cup {j}
  /\ job_futures' = [job_futures EXCEPT ![j] = "created"]
  /\ must_cancel' = [must_cancel EXCEPT ![j] = FALSE]
  /\ cancelTrue' = [cancelTrue EXCEPT ![j] = FALSE]
  /\ exResp' = [op |-> "submit", job_id |-> j, ok |-> TRUE]
  /\ UNCHANGED worker
  /\ UNCHANGED <<storeVars, clockVars, memVars, agentVars, lockVars, bucketVars, chunkVars, cacheVars, jobVars, sseVars, workerPhase, pipeStore>>

\* ExecuteFirstStep, had a cancellation that arrives before the body starts
\* been recorded on the job (status cancelled straight from pending).
ExecuteFirstStep_MarksCancelled(j) ==
  /\ job_futures[j] = "created"
  /\ IF must_cancel[j]
     THEN /\ job_futures' = [job_futures EXCEPT ![j] = "absent"]
          /\ must_cancel' = [must_cancel EXCEPT ![j] = FALSE]
          /\ exStatus' = [exStatus EXCEPT ![j] = "cancelled"]
          /\ exStore' = [exStore EXCEPT ![j] = StoreJob(@, j, "cancelled")]
          /\ running_jobs' = running_jobs \ {j}
          /\ UNCHANGED <<worker, workerPhase>>
     ELSE /\ exStatus' = [exStatus EXCEPT ![j] = "running"]
          /\ exStore' = [exStore EXCEPT ![j] = StoreJob(@, j, "running")]
          /\ worker' = [worker EXCEPT ![j] = Append(@, "running")]
          /\ workerPhase' = [workerPhase EXCEPT ![j] = Append(@, 0)]
          /\ job_futures' = [job_futures EXCEPT ![j] = "waiting"]
          /\ UNCHANGED <<must_cancel, running_jobs>>
  /\ UNCHANGED <<exGen, cancelTrue, exResp>>
  /\ UNCHANGED <<storeVars, clockVars, memVars, agentVars, lockVars, bucketVars, chunkVars, cacheVars, jobVars, sseVars, pipeStore>>

\* The first step of the Task.  With a cancellation pending the loop throws
\* CancelledError into the coroutine before its body starts: no line of
\* _execute_job runs and the Task ends cancelled.  Otherwise the body runs
\* up to `await loop.run_in_executor(...)`: RUNNING is stored and run_crew is
\* handed to the pool.
ExecuteFirstStep(j) ==
  /\ job_futures[j] = "created"
  /\ IF must_cancel[j]
     THEN /\ job_futures' = [job_futures EXCEPT ![j] = "cancelled"]
          /\ must_cancel' = [must_cancel EXCEPT ![j] = FALSE]
          /\ UNCHANGED <<exStatus, exStore, worker, workerPhase>>
     ELSE /\ exStatus' = [exStatus EXCEPT ![j] = "running"]
          /\ exStore' = [exStore EXCEPT ![j] = StoreJob(@, j, "running")]
          /\ worker' = [worker EXCEPT ![j] = Append(@, "running")]
          /\ workerPhase' = [workerPhase EXCEPT ![j] = Append(@, 0)]
          /\ job_futures' = [job_futures EXCEPT ![j] = "waiting"]
          /\ UNCHANGED must_cancel
  /\ UNCHANGED <<exGen, running_jobs, cancelTrue, exResp>>
  /\ UNCHANGED <<storeVars, clockVars, memVars, agentVars, lockVars, bucketVars, chunkVars, cacheVars, jobVars, sseVars, pipeStore>>

\* run_crew in a pool thread: crew.kickoff returns or raises.  A thread
\* whose Task was cancelled keeps running to its end.
WorkerFinish(j, outcome) ==
  /\ \E g \in 1..Len(worker[j]) :
       /\ worker[j][g] = "running"
       /\ worker' = [worker EXCEPT ![j][g] = outcome]
  /\ UNCHANGED <<exStatus, exGen, running_jobs, job_futures, must_cancel,
                 exStore, cancelTrue, exResp>>
  /\ UNCHANGED <<storeVars, clockVars, memVars, agentVars, lockVars, bucketVars, chunkVars, cacheVars, jobVars, sseVars, workerPhase, pipeStore>>

\* The record _update_job_progress stores for job j.
PipeRec(j, w) ==
  [kind |-> "job", job_id |-> j, status |-> w.status, phase |-> w.phase,
   progress |-> w.progress]

\* crew.kickoff inside run_crew reaches its next phase boundary:
\* _update_job_progress calls internal_callback, which assigns job.progress
\* and job.phase and then fails in asyncio.create_task (no running loop in
\* the pool thread; the error is logged), and writes job:{job_id} through a
\* new CacheManager.
WorkerProgress(j) ==
  /\ \E g \in 1..Len(worker[j]) :
       /\ worker[j][g] = "running"
       /\ workerPhase[j][g] < Len(PipelineWrites)
       /\ workerPhase[j][g] < MaxPipeWrites
       /\ workerPhase' = [workerPhase EXCEPT ![j][g] = @ + 1]
       /\ pipeStore' = [pipeStore EXCEPT ![j] =
            StorageSave(@, SetEntry("job:" \o j,
                                    PipeRec(j, PipelineWrites[workerPhase[j][g] + 1]),
                                    NoTtl))]
  /\ UNCHANGED <<exStatus, exGen, running_jobs, job_futures, must_cancel,
                 worker, exStore, cancelTrue, exResp>>
  /\ UNCHANGED <<storeVars, clockVars, memVars, agentVars, lockVars, bucketVars, chunkVars, cacheVars, jobVars, sseVars>>

\* The status _execute_job sets when the Task is resumed at the await.
ResumeStatus(j) ==
  IF must_cancel[j] THEN "cancelled"
  ELSE IF CurrentWorker(j) = "returned" THEN "completed"
  ELSE "failed"

\* The Task resumes at the await: with the result (COMPLETED), with the
\* exception of run_crew (FAILED) or with CancelledError (CANCELLED); the
\* finally block stores the job and removes it from both tables.
ExecuteResume(j) ==
  /\ job_futures[j] = "waiting"
  /\ must_cancel[j] \/ CurrentWorker(j) \in {"returned", "raised"}
  /\ exStatus' = [exStatus EXCEPT ![j] = ResumeStatus(j)]
  /\ exStore' = [exStore EXCEPT ![j] = StoreJob(@, j, ResumeStatus(j))]
  /\ running_jobs' = running_jobs \ {j}
  /\ job_futures' = [job_futures EXCEPT ![j] = "absent"]
  /\ must_cancel' = [must_cancel EXCEPT ![j] = FALSE]
  /\ UNCHANGED <<exGen, worker, cancelTrue, exResp>>
  /\ UNCHANGED <<storeVars, clockVars, memVars, agentVars, lockVars, bucketVars, chunkVars, cacheVars, jobVars, sseVars, workerPhase, pipeStore>>

\* cancel_job: False when job_futures has no entry; otherwise the result of
\* Task.cancel(), which is False for a Task that is done and True (with the
\* cancellation left pending) for one that is not.
CancelJob(j) ==
  /\ IF job_futures[j] \in {"created", "waiting"}
     THEN /\ must_cancel' = [must_cancel EXCEPT ![j] = TRUE]
          /\ cancelTrue' = [cancelTrue EXCEPT ![j] = TRUE]
          /\ exResp' = [op |-> "cancel", job_id |-> j, ok |-> TRUE]
     ELSE /\ exResp' = [op |-> "cancel", job_id |-> j, ok |-> FALSE]
          /\ UNCHANGED <<must_cancel, cancelTrue>>
  /\ UNCHANGED <<exStatus, exGen, running_jobs, job_futures, worker, exStore>>
  /\ UNCHANGED <<storeVars, clockVars, memVars, agentVars, lockVars, bucketVars, chunkVars, cacheVars, jobVars, sseVars, workerPhase, pipeStore>>

\* The max_concurrent_jobs the executor under study is constructed with.
max_concurrent_jobs == 1

\* get_running_jobs: the ids of the entries of running_jobs.
GetRunningJobs == running_jobs

\* CrewExecutor.get_job_status, the status field of its answer: the
\* ExecutionJob in running_jobs if there is one, else what the executor's
\* cache returns for job:{job_id} ("none": nothing found).
ExecutorJobStatus(j) ==
  IF j \in running_jobs THEN exStatus[j]
  ELSE LET cached == Get(exStore[j], "job:" \o j)
       IN  IF cached = None THEN "none" ELSE cached.status

NextExec ==
  \/ \E j \in ExecIds : SubmitDuplicate(j)
  \/ \E j \in ExecIds : SubmitJob(j)
  \/ \E j \in ExecIds : ExecuteFirstStep(j)
  \/ \E j \in ExecIds : \E outcome \in {"returned", "raised"} : WorkerFinish(j, outcome)
  \/ \E j \in ExecIds : ExecuteResume(j)
  \/ \E j \in ExecIds : CancelJob(j)
  \/ \E j \in ExecIds : WorkerProgress(j)

(***************************************************************************)
(* SpecStore: CrewMemoryStorage.save called concurrently                   *)
(***************************************************************************)
\* save() calls per caller in a run of the model.
MaxSaves == 2

\* The callers of save: threads t1 and t2 share one storage instance, t3
\* uses another instance over the same storage_path.
Callers == {"t1", "t2", "t3"}
Instances == {"A", "B"}
InstanceOf(c) == IF c = "t3" THEN "B" ELSE "A"

\* entry_id = str(uuid.uuid4()): unique per call.
EntryId(c, n) == <<c, n>>

InitStore ==
  /\ snapshot = <<>>
  /\ svPool = [i \in Instances |-> <<>>]
  /\ svPc = [c \in Callers |-> "idle"]
  /\ svCount = [c \in Callers |-> 0]
  /\ svData = [c \in Callers |-> <<>>]
  /\ svReturned = {}

\* save: self.memories[entry_id] = entry, then _persist_memory is entered.
SaveBegin(c) ==
  /\ svPc[c] = "idle"
  /\ svCount[c] < MaxSaves
  /\ svCount' = [svCount EXCEPT ![c] = @ + 1]
  /\ svPool' = [svPool EXCEPT ![InstanceOf(c)] = Append(@, EntryId(c, svCount[c] + 1))]
  /\ svPc' = [svPc EXCEPT ![c] = "read"]
  /\ UNCHANGED <<snapshot, svData, svReturned>>
  /\ UNCHANGED <<cacheVars, jobVars, sseVars, execVars, clockVars, memVars, agentVars, lockVars, bucketVars, chunkVars>>

\* _persist_memory: memories_data = json.load(f) (no lock is held).
PersistRead(c) ==
  /\ svPc[c] = "read"
  /\ svData' = [svData EXCEPT ![c] = snapshot]
  /\ svPc' = [svPc EXCEPT ![c] = "write"]
  /\ UNCHANGED <<snapshot, svPool, svCount, svReturned>>
  /\ UNCHANGED <<cacheVars, jobVars, sseVars, execVars, clockVars, memVars, agentVars, lockVars, bucketVars, chunkVars>>

\* memories_data with the entry replaced where its id is found, appended
\* otherwise.
WithEntry(data, id) ==
  IF \E i \in 1..Len(data) : data[i] = id THEN data ELSE Append(data, id)

\* _persist_memory: the whole list is written back with json.dump, and
\* save returns the id.
PersistWrite(c) ==
  /\ svPc[c] = "write"
  /\ snapshot' = WithEntry(svData[c], EntryId(c, svCount[c]))
  /\ svReturned' = svReturned \cup {EntryId(c, svCount[c])}
  /\ svPc' = [svPc EXCEPT ![c] = "idle"]
  /\ svData' = [svData EXCEPT ![c] = <<>>]
  /\ UNCHANGED <<svPool, svCount>>
  /\ UNCHANGED <<cacheVars, jobVars, sseVars, execVars, clockVars, memVars, agentVars, lockVars, bucketVars, chunkVars>>

NextStore ==
  \/ \E c \in Callers : SaveBegin(c)
  \/ \E c \in Callers : PersistRead(c)
  \/ \E c \in Callers : PersistWrite(c)


(***************************************************************************)
(* SpecTtl: the job flow under a clock, and GET /api/jobs/{job_id}         *)
(***************************************************************************)
\* Seconds that pass between two observations of the clock.
TickSeconds == 30

\* Observations of the clock in a run of the model.
MaxTicks == 2

\* ttl=60 of the done record written by run_trailtag_job.
TerminalTtl == 60

InitClock ==
  /\ now = 0
  /\ getResp = [code |-> 0, job_id |-> "", at |-> 0]

\* No run_trailtag_job is between its first and its last step.
Quiescent == \A j \in JobIds : pc[j] \in {"idle", "cached", "finished"}

\* Time passes.  The clock is read at TickSeconds granularity; a whole
\* run_trailtag_job fits between two readings.
Tick ==
  /\ now < MaxTicks * TickSeconds
  /\ Quiescent
  /\ now' = now + TickSeconds
  /\ UNCHANGED <<getResp, cacheVars, jobVars, sseVars, execVars, storeVars, memVars, agentVars, lockVars, bucketVars, chunkVars>>

\* GET /api/jobs/{job_id}: a new CacheManager reads job:{job_id}; 404 when
\* nothing truthy comes back.
GetJobStatus(j) ==
  LET job == CacheGet(LoadMemories(file), JobKey(j))
  IN  /\ getResp' = [code |-> IF job = None THEN 404 ELSE 200, job_id |-> j, at |-> now]
      /\ UNCHANGED <<now, cacheVars, jobVars, sseVars, execVars, storeVars, memVars, agentVars, lockVars, bucketVars, chunkVars>>

NextTtl ==
  \/ \E v \in Videos, probe \in BOOLEAN : AnalyzeNoSubtitles(v, probe)
  \/ \E v \in Videos, probe \in BOOLEAN : AnalyzeCached(v, probe)
  \/ \E v \in Videos, probe \in BOOLEAN : AnalyzeNew(v, probe)
  \/ \E j \in JobIds : DriverStart(j)
  \/ \E j \in JobIds : DriverRunning(j)
  \/ \E j \in JobIds : KickoffStart(j)
  \/ \E j \in JobIds : TaskCallback(j)
  \/ \E j \in JobIds, kind \in {"pydantic", "raw"} : FinalCallback(j, kind)
  \/ \E j \in JobIds : StoreMapRoutes(j)
  \/ \E j \in JobIds : KickoffReturn(j)
  \/ \E j \in JobIds : KickoffRaise(j)
  \/ \E j \in JobIds : GuardrailReject(j)
  \/ \E j \in JobIds : DriverDone(j)
  \/ \E j \in JobIds : DriverStore(j)
  \/ \E j \in JobIds : DriverFail(j)
  \/ \E j \in JobIds : DriverUnmap(j)
  \/ \E j \in JobIds : GetJobStatus(j)
  \/ Tick


(***************************************************************************)
(* SpecMem: one CrewMemoryManager, its files, and a restart                *)
(***************************************************************************)
\* memory_storage.save calls in a run of the model.
MaxStorageSaves == 2

MemJobs == {"m1", "m2"}
MemVideos == {"v1"}

\* The (status, phase, progress) a caller passes to save_job_progress.
ProgressArgs ==
  {[status |-> "running", phase |-> "metadata", progress |-> 50],
   [status |-> "completed", phase |-> "summary", progress |-> 100]}

\* A file that does not exist.
NoFile == [exists |-> FALSE]

\* A file holding data.
FileOf(data) == [exists |-> TRUE, data |-> data]

\* JobProgressEntry(job_id, video_id, status, phase, progress, updated_at):
\* updated_at is the argument, created_at comes from its default_factory
\* when the model is constructed.
JobProgressEntry(j, v, a, updated_at, created_at) ==
  [kind |-> "entry", job_id |-> j, video_id |-> v, status |-> a.status,
   phase |-> a.phase, progress |-> a.progress,
   created_at |-> created_at, updated_at |-> updated_at]

\* entry.model_dump(mode="json"): the dict written to job_memories.json
\* (enums by value, datetimes as ISO text), None for a job with no entry.
ModelDump(e) == IF e = None THEN None ELSE [e EXCEPT !.kind = "json"]

\* JobProgressEntry(**job_data) in _load_existing_data.
ParseEntry(d) == IF d = None THEN None ELSE [d EXCEPT !.kind = "entry"]

NoArgs == [job_id |-> "", video_id |-> "", args |-> None, updated_at |-> 0]

MaxAgentSaves == 2

AgentRoles == {"r1", "r2"}

\* Texts are sequences of characters over a small alphabet: "T" is the one
\* upper-case letter, " " separates words.
MemContexts == {<<"r">>}
AgentContexts == {<<"t", "r", " ", "T">>, <<"T", " ", "t", "r">>, <<"r">>}
AgentQueries == {<<"T", " ", "t", "r">>, <<"t">>, <<"r", "t">>}
QueryLimits == {1, 10}

\* str.lower(), over the upper-case letters that occur in the model.
UpperToLower ==
  [c \in {"T", "D", "E", "L", "N"} |->
     CASE c = "T" -> "t" [] c = "D" -> "d" [] c = "E" -> "e" [] c = "L" -> "l"
       [] c = "N" -> "n"]
Lower(s) ==
  [i \in 1..Len(s) |-> IF s[i] \in DOMAIN UpperToLower THEN UpperToLower[s[i]] ELSE s[i]]

\* sub in s, for two str.
Contains(sub, s) ==
  \E i \in 0..(Len(s) - Len(sub)) : SubSeq(s, i + 1, i + Len(sub)) = sub

\* AgentMemoryEntry(agent_role, context, created_at=now).
AgentMemoryEntry(role, context, created_at) ==
  [agent_role |-> role, context |-> context, created_at |-> created_at]

InitAgent ==
  /\ agent_memories = [r \in AgentRoles |-> <<>>]
  /\ agentFile = NoFile
  /\ agentResp = <<>>

\* The entries held for all roles together.
AgentEntryCount ==
  LET RECURSIVE Sum(_)
      Sum(R) == IF R = {} THEN 0
                ELSE LET r == CHOOSE x \in R : TRUE
                     IN  Len(agent_memories[r]) + Sum(R \ {r})
  IN  Sum(AgentRoles)

\* save_agent_memory: the entry is appended to agent_memories[agent_role]
\* and _persist_agent_memory rewrites agent_memories.json.
SaveAgentMemory(role, context) ==
  LET mems == [agent_memories EXCEPT
                 ![role] = Append(@, AgentMemoryEntry(role, context, now))]
  IN  /\ mgrPc = "idle"
      /\ AgentEntryCount < MaxAgentSaves
      /\ agent_memories' = mems
      /\ agentFile' = FileOf(mems)
      /\ UNCHANGED agentResp
      /\ UNCHANGED <<cacheVars, jobVars, sseVars, execVars, storeVars, clockVars, lockVars, bucketVars, chunkVars, memVars>>

\* list.sort(key=created_at, reverse=True): stable, newest first.
RECURSIVE SortNewestFirst(_)
SortNewestFirst(ms) ==
  IF ms = <<>> THEN <<>>
  ELSE LET rest == SortNewestFirst(Tail(ms))
           e == Head(ms)
           k == Cardinality({i \in 1..Len(rest) : rest[i].created_at > e.created_at})
       IN  SubSeq(rest, 1, k) \o <<e>> \o SubSeq(rest, k + 1, Len(rest))

\* query_agent_memories(agent_role, query, limit): the entries of the role
\* whose lowered context has the lowered query as a substring, newest
\* first, cut to limit.
QueryAgentMemories(role, query, limit) ==
  LET matching == SelectSeq(agent_memories[role],
                            LAMBDA m : Contains(Lower(query), Lower(m.context)))
      sorted == SortNewestFirst(matching)
  IN  SubSeq(sorted, 1, IF Len(sorted) < limit THEN Len(sorted) ELSE limit)

\* A caller queries the agent memories.
QueryAgentMemoriesCall(role, query, limit) ==
  /\ mgrPc = "idle"
  /\ agentResp' = QueryAgentMemories(role, query, limit)
  /\ UNCHANGED <<agent_memories, agentFile>>
  /\ UNCHANGED <<cacheVars, jobVars, sseVars, execVars, storeVars, clockVars, lockVars, bucketVars, chunkVars, memVars>>

\* The characters of the strings that are stored as plain contents.
Chars(t) ==
  CASE t = "" -> <<>>
    [] t = "a" -> <<"a">>
    [] t = "b" -> <<"b">>
    [] t = "1" -> <<"1">>
    [] t = "None" -> <<"N", "o", "n", "e">>
    [] t = "True" -> <<"T", "r", "u", "e">>
    [] t = "note" -> <<"n", "o", "t", "e">>
    [] t = "DELETED" -> <<"D", "E", "L", "E", "T", "E", "D">>
    [] OTHER -> <<"?">>

\* str(memory.content): the text of a stored content; the JSON document of
\* a dict is its name in braces.
ContentText(c) ==
  IF c.fmt = "plain" THEN Chars(c.v.s)
  ELSE IF c.v.kind = "dict" THEN <<"{">> \o Chars(c.v.s) \o <<"}">>
  ELSE <<"{", "}">>

\* str.count(" ").
CountSpaces(t) == Cardinality({i \in 1..Len(t) : t[i] = " "})

SearchQueries == {<<>>, <<"a">>, <<"d", "e", "l", "e", "t", "e", "d">>}

\* score_threshold as a fraction <<numerator, denominator>>: the default
\* 0.5 and the 0.0 that CrewAICacheProvider.get passes.
ScoreThresholds == {<<1, 2>>, <<0, 1>>}

\* CrewMemoryStorage.search, the scan: the positions of the entries whose
\* lowered content holds the lowered query and whose score
\* min(1.0, spaces(query) + 1) / max(1, spaces(content)) reaches the
\* threshold.  spaces(query) + 1 >= 1, so the numerator is 1.
SearchHits(mems, query, thr) ==
  {i \in 1..Len(mems) :
     LET content_str == Lower(ContentText(mems[i].content))
         spaces == CountSpaces(content_str)
         den == IF spaces > 1 THEN spaces ELSE 1
     IN  /\ Contains(Lower(query), content_str)
         /\ thr[2] >= thr[1] * den}

\* results.sort(key=score, reverse=True): stable, by 1/max(1, spaces).
RECURSIVE SortByScore(_, _)
SortByScore(mems, idx) ==
  IF idx = <<>> THEN <<>>
  ELSE LET rest == SortByScore(mems, Tail(idx))
           Den(i) == LET n == CountSpaces(ContentText(mems[i].content))
                     IN  IF n > 1 THEN n ELSE 1
           e == Head(idx)
           k == Cardinality({j \in 1..Len(rest) : Den(rest[j]) < Den(e)})
       IN  SubSeq(rest, 1, k) \o <<e>> \o SubSeq(rest, k + 1, Len(rest))

\* CrewMemoryStorage.search(query, limit, score_threshold): the entries of
\* the results, best score first, cut to limit.
Search(mems, query, limit, thr) ==
  LET hits == SearchHits(mems, query, thr)
      inOrder == SelectSeq([i \in 1..Len(mems) |-> i], LAMBDA i : i \in hits)
      sorted == SortByScore(mems, inOrder)
      n == IF Len(sorted) < limit THEN Len(sorted) ELSE limit
  IN  [k \in 1..n |-> mems[sorted[k]]]

InitMem ==
  /\ job_memories = [j \in MemJobs |-> None]
  /\ analysis_results = {}
  /\ mgrMemories = {}
  /\ jobFile = NoFile
  /\ analysisFile = NoFile
  /\ memFile = NoFile
  /\ crewDir = TRUE
  /\ mgrPc = "idle"
  /\ mgrArgs = NoArgs
  /\ mgrSaves = 0

\* save_job_progress is called: the keyword arguments are evaluated, among
\* them updated_at=datetime.now(timezone.utc).
SaveJobProgressCall(j, v, a) ==
  /\ mgrPc = "idle"
  /\ mgrPc' = "construct"
  /\ mgrArgs' = [job_id |-> j, video_id |-> v, args |-> a, updated_at |-> now]
  /\ UNCHANGED <<job_memories, analysis_results, mgrMemories, jobFile,
                 analysisFile, memFile, crewDir, mgrSaves>>
  /\ UNCHANGED <<cacheVars, jobVars, sseVars, execVars, storeVars, clockVars, agentVars, lockVars, bucketVars, chunkVars>>

\* save_job_progress with an entry that is kept when the job already has one.
SaveJobProgress_KeepsFirst ==
  LET j == mgrArgs.job_id
      entry == JobProgressEntry(j, mgrArgs.video_id, mgrArgs.args, mgrArgs.updated_at, now)
      jobs == IF job_memories[j] = None THEN [job_memories EXCEPT ![j] = entry]
              ELSE job_memories
  IN  /\ mgrPc = "construct"
      /\ job_memories' = jobs
      /\ jobFile' = FileOf([i \in MemJobs |-> ModelDump(jobs[i])])
      /\ mgrPc' = "idle"
      /\ mgrArgs' = NoArgs
      /\ UNCHANGED <<analysis_results, mgrMemories, analysisFile, memFile, crewDir, mgrSaves>>
      /\ UNCHANGED <<cacheVars, jobVars, sseVars, execVars, storeVars, clockVars, agentVars, lockVars, bucketVars, chunkVars>>

\* save_job_progress, the body: JobProgressEntry is constructed (created_at
\* is read from the clock now), put in job_memories under job_id, and
\* _persist_job_memory rewrites job_memories.json with every entry.
SaveJobProgress ==
  LET j == mgrArgs.job_id
      entry == JobProgressEntry(j, mgrArgs.video_id, mgrArgs.args, mgrArgs.updated_at, now)
      jobs == [job_memories EXCEPT ![j] = entry]
  IN  /\ mgrPc = "construct"
      /\ job_memories' = jobs
      /\ jobFile' = FileOf([i \in MemJobs |-> ModelDump(jobs[i])])
      /\ mgrPc' = "idle"
      /\ mgrArgs' = NoArgs
      /\ UNCHANGED <<analysis_results, mgrMemories, analysisFile, memFile, crewDir, mgrSaves>>
      /\ UNCHANGED <<cacheVars, jobVars, sseVars, execVars, storeVars, clockVars, agentVars, lockVars, bucketVars, chunkVars>>

\* save_analysis_result: analysis_results[video_id] = entry and
\* _persist_analysis_result rewrites analysis_results.json.
SaveAnalysisResult(v) ==
  /\ mgrPc = "idle"
  /\ analysis_results' = analysis_results \cup {v}
  /\ analysisFile' = FileOf(analysis_results \cup {v})
  /\ UNCHANGED <<job_memories, mgrMemories, jobFile, memFile, crewDir, mgrPc,
                 mgrArgs, mgrSaves>>
  /\ UNCHANGED <<cacheVars, jobVars, sseVars, execVars, storeVars, clockVars, agentVars, lockVars, bucketVars, chunkVars>>

\* memory_storage.save: the entry enters memories; _persist_memory appends
\* it to memories.json, and fails (logged only) when crew_memory is gone.
MemoryStorageSave ==
  LET id == mgrSaves + 1
      onDisk == IF memFile.exists THEN memFile.data ELSE {}
  IN  /\ mgrPc = "idle"
      /\ mgrSaves < MaxStorageSaves
      /\ mgrSaves' = id
      /\ mgrMemories' = mgrMemories \cup {id}
      /\ memFile' = IF crewDir THEN FileOf(onDisk \cup {id}) ELSE memFile
      /\ UNCHANGED <<job_memories, analysis_results, jobFile, analysisFile,
                     crewDir, mgrPc, mgrArgs>>
      /\ UNCHANGED <<cacheVars, jobVars, sseVars, execVars, storeVars, clockVars, agentVars, lockVars, bucketVars, chunkVars>>

\* reset_memories("job") that wipes the analysis results as well.
ResetMemories_JobWipesAnalysis(memory_type) ==
  /\ mgrPc = "idle"
  /\ job_memories' = IF memory_type \in {"job", "all"}
                      THEN [j \in MemJobs |-> None] ELSE job_memories
  /\ jobFile' = IF memory_type \in {"job", "all"} THEN NoFile ELSE jobFile
  /\ analysis_results' = IF memory_type \in {"job", "analysis", "all"} THEN {} ELSE analysis_results
  /\ analysisFile' = IF memory_type \in {"job", "analysis", "all"} THEN NoFile ELSE analysisFile
  /\ agent_memories' = IF memory_type \in {"agent", "all"}
                        THEN [r \in AgentRoles |-> <<>>] ELSE agent_memories
  /\ agentFile' = IF memory_type \in {"agent", "all"} THEN NoFile ELSE agentFile
  /\ mgrMemories' = IF memory_type \in {"crew", "all"} THEN {} ELSE mgrMemories
  /\ memFile' = IF memory_type \in {"crew", "all"} THEN NoFile ELSE memFile
  /\ crewDir' = IF memory_type = "all" THEN FALSE ELSE crewDir
  /\ UNCHANGED <<mgrPc, mgrArgs, mgrSaves, agentResp>>
  /\ UNCHANGED <<cacheVars, jobVars, sseVars, execVars, storeVars, clockVars, lockVars, bucketVars, chunkVars>>

\* reset_memories(memory_type) for "job", "analysis", "agent", "crew" and
\* for everything (None): the last one clears the tables, resets the
\* storage and removes the whole storage_path tree, of which only the top
\* directory is created again.
ResetMemories(memory_type) ==
  /\ mgrPc = "idle"
  /\ job_memories' = IF memory_type \in {"job", "all"}
                      THEN [j \in MemJobs |-> None] ELSE job_memories
  /\ jobFile' = IF memory_type \in {"job", "all"} THEN NoFile ELSE jobFile
  /\ analysis_results' = IF memory_type \in {"analysis", "all"} THEN {} ELSE analysis_results
  /\ analysisFile' = IF memory_type \in {"analysis", "all"} THEN NoFile ELSE analysisFile
  /\ agent_memories' = IF memory_type \in {"agent", "all"}
                        THEN [r \in AgentRoles |-> <<>>] ELSE agent_memories
  /\ agentFile' = IF memory_type \in {"agent", "all"} THEN NoFile ELSE agentFile
  /\ mgrMemories' = IF memory_type \in {"crew", "all"} THEN {} ELSE mgrMemories
  /\ memFile' = IF memory_type \in {"crew", "all"} THEN NoFile ELSE memFile
  /\ crewDir' = IF memory_type = "all" THEN FALSE ELSE crewDir
  /\ UNCHANGED <<mgrPc, mgrArgs, mgrSaves, agentResp>>
  /\ UNCHANGED <<cacheVars, jobVars, sseVars, execVars, storeVars, clockVars, lockVars, bucketVars, chunkVars>>

\* get_job_progress(job_id) on the manager.
GetJobProgress(j) == job_memories[j]

\* get_memory_stats().total_entries on the manager.
TotalEntries ==
  Cardinality(mgrMemories)
    + Cardinality({j \in MemJobs : job_memories[j] # None})
    + Cardinality(analysis_results)

\* A new CrewMemoryManager over the same storage_path: CrewMemoryStorage
\* loads memories.json, _load_existing_data loads the other two files.
LoadedMemories == IF memFile.exists THEN memFile.data ELSE {}
LoadedJobs ==
  IF jobFile.exists THEN [j \in MemJobs |-> ParseEntry(jobFile.data[j])]
                    ELSE [j \in MemJobs |-> None]
LoadedAnalysis == IF analysisFile.exists THEN analysisFile.data ELSE {}

\* get_memory_stats().total_entries on the new manager.
LoadedTotalEntries ==
  Cardinality(LoadedMemories)
    + Cardinality({j \in MemJobs : LoadedJobs[j] # None})
    + Cardinality(LoadedAnalysis)

\* The clock moves while the manager is in use.
MemTick ==
  /\ now < MaxTicks * TickSeconds
  /\ now' = now + TickSeconds
  /\ UNCHANGED <<getResp, cacheVars, jobVars, sseVars, execVars, storeVars, memVars, agentVars, lockVars, bucketVars, chunkVars>>

NextMem ==
  \/ \E j \in MemJobs, v \in MemVideos, a \in ProgressArgs : SaveJobProgressCall(j, v, a)
  \/ SaveJobProgress
  \/ \E v \in MemVideos : SaveAnalysisResult(v)
  \/ MemoryStorageSave
  \/ \E r \in AgentRoles, c \in MemContexts : SaveAgentMemory(r, c)
  \/ \E t \in {"job", "analysis", "agent", "crew", "all"} : ResetMemories(t)
  \/ MemTick

NextAgent ==
  \/ \E r \in AgentRoles, c \in AgentContexts : SaveAgentMemory(r, c)
  \/ \E r \in AgentRoles, q \in AgentQueries, l \in QueryLimits :
       QueryAgentMemoriesCall(r, q, l)
  \/ ResetMemories("agent")
  \/ MemTick

(***************************************************************************)
(* SpecLock: the executor's lock, its callers and its tasks                *)
(***************************************************************************)
MaxLockOps == 2

\* The threads that call the executor, each running an event loop.
Threads == {"t1", "t2"}
LockJobs == {"e1", "e2"}
NoThread == "none"

InitLock ==
  /\ lockOwner = NoThread
  /\ lockDepth = 0
  /\ lkPc = [t \in Threads |-> "idle"]
  /\ lkOpn = [t \in Threads |-> "none"]
  /\ lkArg = [t \in Threads |-> "none"]
  /\ lkTodo = [t \in Threads |-> {}]
  /\ lkOps = [t \in Threads |-> 0]
  /\ lkRunning = {}
  /\ lkFutures = {}
  /\ lkTask = [j \in LockJobs |-> "none"]
  /\ lkLoop = [j \in LockJobs |-> NoThread]
  /\ lkWorkers = {}
  /\ lkPool = "open"

\* threading.Lock(): a second acquire by the owner blocks as well.
CanAcquire_NotReentrant(t) == lockOwner = NoThread

\* threading.RLock(): free, or already held by the acquiring thread.
CanAcquire(t) == lockOwner \in {NoThread, t}

\* A thread calls submit_job, get_job_status, cancel_job, get_running_jobs
\* or shutdown and reaches its `with self._lock`.  submit_job has returned
\* early before that when job_id is in running_jobs.
LockCall(t, op, j) ==
  /\ lkPc[t] = "idle"
  /\ lkOps[t] < MaxLockOps
  /\ op = "submit" => (j \notin lkRunning /\ lkTask[j] \in {"none", "done"})
  /\ lkPc' = [lkPc EXCEPT ![t] = "want"]
  /\ lkOpn' = [lkOpn EXCEPT ![t] = op]
  /\ lkArg' = [lkArg EXCEPT ![t] = j]
  /\ lkOps' = [lkOps EXCEPT ![t] = @ + 1]
  /\ UNCHANGED <<lockOwner, lockDepth, lkTodo, lkRunning, lkFutures, lkTask,
                 lkLoop, lkWorkers, lkPool>>
  /\ UNCHANGED <<cacheVars, jobVars, sseVars, execVars, storeVars, clockVars, bucketVars, chunkVars, memVars, agentVars>>

\* `with self._lock:` is entered; shutdown then takes list(job_futures.keys()).
LockEnter(t) ==
  /\ lkPc[t] = "want"
  /\ CanAcquire(t)
  /\ lockOwner' = t
  /\ lockDepth' = lockDepth + 1
  /\ lkPc' = [lkPc EXCEPT ![t] = "in"]
  /\ lkTodo' = [lkTodo EXCEPT ![t] = IF lkOpn[t] = "shutdown" THEN lkFutures ELSE {}]
  /\ UNCHANGED <<lkOpn, lkArg, lkOps, lkRunning, lkFutures, lkTask, lkLoop,
                 lkWorkers, lkPool>>
  /\ UNCHANGED <<cacheVars, jobVars, sseVars, execVars, storeVars, clockVars, bucketVars, chunkVars, memVars, agentVars>>

\* future.cancel() on the task of job j: a task that has not run yet never
\* runs, a task that is waiting gets CancelledError, a finished one stays.
CancelTask(tasks, j) ==
  IF j \notin lkFutures THEN tasks
  ELSE IF tasks[j] = "start" THEN [tasks EXCEPT ![j] = "done"]
  ELSE IF tasks[j] \in {"awaiting", "resumable"} THEN [tasks EXCEPT ![j] = "cancelled"]
  ELSE tasks

\* The lock is released once.
ReleaseOwner == IF lockDepth = 1 THEN NoThread ELSE lockOwner

\* The body under the lock and the code after it, for every operation but
\* shutdown: submit_job enters the job in running_jobs, then creates the
\* task and enters it in job_futures; cancel_job cancels the future; the
\* cleanup of _execute_job removes the job from both tables; the two
\* queries only read.
LockBody(t) ==
  LET op == lkOpn[t]
      j == lkArg[t]
  IN  /\ lkPc[t] = "in"
      /\ op # "shutdown"
      /\ lockDepth' = lockDepth - 1
      /\ lockOwner' = ReleaseOwner
      /\ lkPc' = [lkPc EXCEPT ![t] = "idle"]
      /\ lkRunning' = CASE op = "submit" -> lkRunning \cup {j}
                        [] op = "cleanup" -> lkRunning \ {j}
                        [] OTHER -> lkRunning
      /\ lkFutures' = CASE op = "submit" -> lkFutures \cup {j}
                        [] op = "cleanup" -> lkFutures \ {j}
                        [] OTHER -> lkFutures
      /\ lkTask' = CASE op = "submit" -> [lkTask EXCEPT ![j] = "start"]
                     [] op = "cleanup" -> [lkTask EXCEPT ![j] = "done"]
                     [] op = "cancel" -> CancelTask(lkTask, j)
                     [] OTHER -> lkTask
      /\ lkLoop' = IF op = "submit" THEN [lkLoop EXCEPT ![j] = t] ELSE lkLoop
      /\ UNCHANGED <<lkOpn, lkArg, lkTodo, lkOps, lkWorkers, lkPool>>
      /\ UNCHANGED <<cacheVars, jobVars, sseVars, execVars, storeVars, clockVars, bucketVars, chunkVars, memVars, agentVars>>

\* shutdown, under the lock: the next job_id of the list is handed to
\* `await self.cancel_job(job_id)`, which reaches its own `with self._lock`.
ShutdownNext(t) ==
  /\ lkPc[t] = "in"
  /\ lkOpn[t] = "shutdown"
  /\ lkTodo[t] # {}
  /\ \E j \in lkTodo[t] :
       /\ lkArg' = [lkArg EXCEPT ![t] = j]
       /\ lkTodo' = [lkTodo EXCEPT ![t] = @ \ {j}]
  /\ lkPc' = [lkPc EXCEPT ![t] = "want_nested"]
  /\ UNCHANGED <<lockOwner, lockDepth, lkOpn, lkOps, lkRunning, lkFutures,
                 lkTask, lkLoop, lkWorkers, lkPool>>
  /\ UNCHANGED <<cacheVars, jobVars, sseVars, execVars, storeVars, clockVars, bucketVars, chunkVars, memVars, agentVars>>

\* cancel_job called by shutdown: the lock is taken a second time by its
\* owner, the future is cancelled and the inner lock is released.
ShutdownCancel(t) ==
  /\ lkPc[t] = "want_nested"
  /\ CanAcquire(t)
  /\ lkTask' = CancelTask(lkTask, lkArg[t])
  /\ lkPc' = [lkPc EXCEPT ![t] = "in"]
  /\ UNCHANGED <<lockOwner, lockDepth, lkOpn, lkArg, lkTodo, lkOps, lkRunning,
                 lkFutures, lkLoop, lkWorkers, lkPool>>
  /\ UNCHANGED <<cacheVars, jobVars, sseVars, execVars, storeVars, clockVars, bucketVars, chunkVars, memVars, agentVars>>

\* shutdown leaves the lock and calls self.executor.shutdown(wait=True).
ShutdownRelease(t) ==
  /\ lkPc[t] = "in"
  /\ lkOpn[t] = "shutdown"
  /\ lkTodo[t] = {}
  /\ lockDepth' = lockDepth - 1
  /\ lockOwner' = ReleaseOwner
  /\ lkPool' = "shutdown"
  /\ lkPc' = [lkPc EXCEPT ![t] = "pool_wait"]
  /\ UNCHANGED <<lkOpn, lkArg, lkTodo, lkOps, lkRunning, lkFutures, lkTask,
                 lkLoop, lkWorkers>>
  /\ UNCHANGED <<cacheVars, jobVars, sseVars, execVars, storeVars, clockVars, bucketVars, chunkVars, memVars, agentVars>>

\* executor.shutdown(wait=True) returns when no worker thread is running.
PoolWaitDone(t) ==
  /\ lkPc[t] = "pool_wait"
  /\ lkWorkers = {}
  /\ lkPc' = [lkPc EXCEPT ![t] = "idle"]
  /\ UNCHANGED <<lockOwner, lockDepth, lkOpn, lkArg, lkTodo, lkOps, lkRunning,
                 lkFutures, lkTask, lkLoop, lkWorkers, lkPool>>
  /\ UNCHANGED <<cacheVars, jobVars, sseVars, execVars, storeVars, clockVars, bucketVars, chunkVars, memVars, agentVars>>

\* The task of job j runs on its loop up to `await loop.run_in_executor`:
\* run_crew goes to the pool, or run_in_executor raises because the pool is
\* shut down and the task goes on to its except and finally clauses.
TaskStart(j) ==
  /\ lkTask[j] = "start"
  /\ lkPc[lkLoop[j]] = "idle"
  /\ IF lkPool = "open"
       THEN /\ lkWorkers' = lkWorkers \cup {j}
            /\ lkTask' = [lkTask EXCEPT ![j] = "awaiting"]
       ELSE /\ lkWorkers' = lkWorkers
            /\ lkTask' = [lkTask EXCEPT ![j] = "resumable"]
  /\ UNCHANGED <<lockOwner, lockDepth, lkPc, lkOpn, lkArg, lkTodo, lkOps,
                 lkRunning, lkFutures, lkLoop, lkPool>>
  /\ UNCHANGED <<cacheVars, jobVars, sseVars, execVars, storeVars, clockVars, bucketVars, chunkVars, memVars, agentVars>>

\* run_crew returns or raises in its worker thread; it takes no lock.
LockWorkerFinish(j) ==
  /\ j \in lkWorkers
  /\ lkWorkers' = lkWorkers \ {j}
  /\ lkTask' = IF lkTask[j] = "awaiting" THEN [lkTask EXCEPT ![j] = "resumable"] ELSE lkTask
  /\ UNCHANGED <<lockOwner, lockDepth, lkPc, lkOpn, lkArg, lkTodo, lkOps,
                 lkRunning, lkFutures, lkLoop, lkPool>>
  /\ UNCHANGED <<cacheVars, jobVars, sseVars, execVars, storeVars, clockVars, bucketVars, chunkVars, memVars, agentVars>>

\* The task resumes on its loop (result, exception or CancelledError),
\* runs _update_job_status and reaches the `with self._lock` of its finally.
TaskFinally(j) ==
  LET t == lkLoop[j]
  IN  /\ lkTask[j] \in {"resumable", "cancelled"}
      /\ lkPc[t] = "idle"
      /\ lkTask' = [lkTask EXCEPT ![j] = "finalizing"]
      /\ lkPc' = [lkPc EXCEPT ![t] = "want"]
      /\ lkOpn' = [lkOpn EXCEPT ![t] = "cleanup"]
      /\ lkArg' = [lkArg EXCEPT ![t] = j]
      /\ UNCHANGED <<lockOwner, lockDepth, lkTodo, lkOps, lkRunning, lkFutures,
                     lkLoop, lkWorkers, lkPool>>
      /\ UNCHANGED <<cacheVars, jobVars, sseVars, execVars, storeVars, clockVars, bucketVars, chunkVars, memVars, agentVars>>

NextLock ==
  \/ \E t \in Threads, j \in LockJobs,
        op \in {"submit", "status", "cancel", "running", "shutdown"} : LockCall(t, op, j)
  \/ \E t \in Threads : LockEnter(t)
  \/ \E t \in Threads : LockBody(t)
  \/ \E t \in Threads : ShutdownNext(t)
  \/ \E t \in Threads : ShutdownCancel(t)
  \/ \E t \in Threads : ShutdownRelease(t)
  \/ \E t \in Threads : PoolWaitDone(t)
  \/ \E j \in LockJobs : TaskStart(j)
  \/ \E j \in LockJobs : LockWorkerFinish(j)
  \/ \E j \in LockJobs : TaskFinally(j)

(***************************************************************************)
(* SpecBucket: the token bucket in front of the geocoding API              *)
(***************************************************************************)
\* The clock is read in ticks, TicksPerSecond of them in a second, for
\* MaxBucketTicks ticks.
TicksPerSecond == 10
MaxBucketTicks == 4

\* _token_bucket = TokenBucket(rate=5, burst=10)
rate == 5
burst == 10

BucketCallers == {"c1", "c2"}

\* One token, in the unit of bkTokens.
OneToken == TicksPerSecond

InitBucket ==
  /\ bkTokens = burst * OneToken
  /\ bkTimestamp = 0
  /\ bkNow = 0
  /\ bkAdmitted = [t \in 0..(MaxBucketTicks + 1) |-> 0]
  /\ bkResult = [c \in BucketCallers |-> "none"]

Min(a, b) == IF a < b THEN a ELSE b

\* The refill without the cap at burst.
Refilled_NoCap(tokens, elapsed) == tokens + elapsed * rate

\* min(self.burst, self.tokens + elapsed * self.rate); a tick is
\* 1/TicksPerSecond second and a token is TicksPerSecond units, so a tick
\* brings rate units.
Refilled(tokens, elapsed) == Min(burst * OneToken, tokens + elapsed * rate)

\* PlaceGeocodeTool._run by caller c, up to the bucket: consume() runs as a
\* whole under TokenBucket.lock; it refills, stamps the time and takes one
\* token when there is one.  A denied _run returns None at once.
Consume(c) ==
  LET elapsed == bkNow - bkTimestamp
      tokens == Refilled(bkTokens, elapsed)
      ok == tokens >= OneToken
  IN  /\ bkTimestamp' = bkNow
      /\ bkTokens' = IF ok THEN tokens - OneToken ELSE tokens
      /\ bkAdmitted' = IF ok THEN [bkAdmitted EXCEPT ![bkNow] = @ + 1] ELSE bkAdmitted
      /\ bkResult' = [bkResult EXCEPT ![c] = IF ok THEN "request" ELSE "null"]
      /\ UNCHANGED bkNow
      /\ UNCHANGED <<cacheVars, jobVars, sseVars, execVars, storeVars, clockVars, memVars, agentVars, lockVars, chunkVars>>

\* time.monotonic() moves on.
BucketTick ==
  /\ bkNow < MaxBucketTicks
  /\ bkNow' = bkNow + 1
  /\ UNCHANGED <<bkTokens, bkTimestamp, bkAdmitted, bkResult>>
  /\ UNCHANGED <<cacheVars, jobVars, sseVars, execVars, storeVars, clockVars, memVars, agentVars, lockVars, chunkVars>>

NextBucket ==
  \/ \E c \in BucketCallers : Consume(c)
  \/ BucketTick

(***************************************************************************)
(* SpecChunk: the chunk progress tracker                                   *)
(***************************************************************************)
\* A task of NumChunks chunks, processed up to MaxProcessCalls times.
NumChunks == 2
MaxProcessCalls == 3

\* ChunkProgress.max_retries and ProgressTracker(max_concurrent_tasks=3)
chunk_max_retries == 3
max_concurrent_tasks == 3

ChunkIndices == 0..(NumChunks - 1)

\* max_workers = min(self.max_concurrent_tasks, len(chunks))
MaxWorkers == IF max_concurrent_tasks < NumChunks THEN max_concurrent_tasks ELSE NumChunks

\* create_task: every chunk PENDING with retry_count 0.
InitChunk ==
  /\ chunk_progresses = [i \in ChunkIndices |-> [status |-> "pending", retry_count |-> 0]]
  /\ task_status = "pending"
  /\ futures = [i \in ChunkIndices |-> "none"]
  /\ retry_indices = <<>>
  /\ invocations = [i \in ChunkIndices |-> 0]
  /\ trackerPc = "idle"
  /\ processCalls = 0

\* ChunkProgress.can_retry
CanRetry(cp) == cp.status = "failed" /\ cp.retry_count < chunk_max_retries

\* _update_task_status, on the chunk list cps
UpdateTaskStatus(cps) ==
  LET completed == {i \in ChunkIndices : cps[i].status = "completed"}
      failed == {i \in ChunkIndices : cps[i].status = "failed"}
      processing == {i \in ChunkIndices : cps[i].status = "processing"}
  IN  IF Cardinality(completed) = NumChunks THEN "completed"
      ELSE IF failed # {} /\ processing = {} /\ ~(\E i \in ChunkIndices : CanRetry(cps[i]))
           THEN "failed"
           ELSE task_status

\* update_chunk_status(task_id, chunk_index, status): the status is set, a
\* FAILED one counts a retry, then the task's status is worked out again.
UpdateChunkStatus(chunk_index, status) ==
  LET cps == [chunk_progresses EXCEPT
                ![chunk_index] = [status |-> status,
                                  retry_count |-> IF status = "failed"
                                                  THEN @.retry_count + 1
                                                  ELSE @.retry_count]]
  IN  /\ chunk_progresses' = cps
      /\ task_status' = UpdateTaskStatus(cps)

\* process_chunks_with_function up to the end of the submit loop: the task is
\* PROCESSING and every chunk has a future in the pool.
ProcessChunksStart ==
  /\ trackerPc = "idle"
  /\ processCalls < MaxProcessCalls
  /\ processCalls' = processCalls + 1
  /\ task_status' = "processing"
  /\ futures' = [i \in ChunkIndices |-> "queued"]
  /\ invocations' = [i \in ChunkIndices |-> 0]
  /\ trackerPc' = "collect"
  /\ UNCHANGED <<chunk_progresses, retry_indices>>
  /\ UNCHANGED <<cacheVars, jobVars, sseVars, execVars, storeVars, clockVars, memVars, agentVars, lockVars, bucketVars>>

\* _process_single_chunk in a pool thread, up to the call of the function.
ProcessSingleChunk(i) ==
  /\ futures[i] = "queued"
  /\ Cardinality({k \in ChunkIndices : futures[k] = "running"}) < MaxWorkers
  /\ UpdateChunkStatus(i, "processing")
  /\ futures' = [futures EXCEPT ![i] = "running"]
  /\ UNCHANGED <<retry_indices, invocations, trackerPc, processCalls>>
  /\ UNCHANGED <<cacheVars, jobVars, sseVars, execVars, storeVars, clockVars, memVars, agentVars, lockVars, bucketVars>>

\* processing_function(chunk.content) in the pool thread returns or raises.
ChunkFunction(i, ok) ==
  /\ futures[i] = "running"
  /\ invocations' = [invocations EXCEPT ![i] = @ + 1]
  /\ futures' = [futures EXCEPT ![i] = IF ok THEN "returned" ELSE "raised"]
  /\ UNCHANGED <<chunk_progresses, task_status, retry_indices, trackerPc, processCalls>>
  /\ UNCHANGED <<cacheVars, jobVars, sseVars, execVars, storeVars, clockVars, memVars, agentVars, lockVars, bucketVars>>

\* One round of the as_completed loop: the future's result is taken and the
\* chunk becomes COMPLETED, or FAILED when the future raised.
CollectResult(i) ==
  /\ trackerPc = "collect"
  /\ futures[i] \in {"returned", "raised"}
  /\ UpdateChunkStatus(i, IF futures[i] = "returned" THEN "completed" ELSE "failed")
  /\ futures' = [futures EXCEPT ![i] = "collected"]
  /\ UNCHANGED <<retry_indices, invocations, trackerPc, processCalls>>
  /\ UNCHANGED <<cacheVars, jobVars, sseVars, execVars, storeVars, clockVars, memVars, agentVars, lockVars, bucketVars>>

\* The indices i, from lo upwards, of the chunks that can be retried.
RECURSIVE RetryList(_)
RetryList(lo) ==
  IF lo >= NumChunks THEN <<>>
  ELSE IF CanRetry(chunk_progresses[lo])
       THEN <<lo>> \o RetryList(lo + 1)
       ELSE RetryList(lo + 1)

\* _handle_retries up to its loop: every future is collected, the chunks
\* that can be retried are listed; with none of them the call returns.
HandleRetries ==
  /\ trackerPc = "collect"
  /\ \A i \in ChunkIndices : futures[i] = "collected"
  /\ retry_indices' = RetryList(0)
  /\ trackerPc' = IF RetryList(0) = <<>> THEN "idle" ELSE "retry"
  /\ UNCHANGED <<chunk_progresses, task_status, futures, invocations, processCalls>>
  /\ UNCHANGED <<cacheVars, jobVars, sseVars, execVars, storeVars, clockVars, memVars, agentVars, lockVars, bucketVars>>

\* The retry loop takes the next chunk: it is RETRYING.
RetryBegin ==
  /\ trackerPc = "retry"
  /\ UpdateChunkStatus(Head(retry_indices), "retrying")
  /\ trackerPc' = "retrying"
  /\ UNCHANGED <<futures, retry_indices, invocations, processCalls>>
  /\ UNCHANGED <<cacheVars, jobVars, sseVars, execVars, storeVars, clockVars, memVars, agentVars, lockVars, bucketVars>>

\* processing_function is called again in the calling thread; the chunk is
\* COMPLETED or FAILED, and after the last chunk of the list the call returns.
RetryEnd(ok) ==
  /\ trackerPc = "retrying"
  /\ invocations' = [invocations EXCEPT ![Head(retry_indices)] = @ + 1]
  /\ UpdateChunkStatus(Head(retry_indices), IF ok THEN "completed" ELSE "failed")
  /\ retry_indices' = Tail(retry_indices)
  /\ trackerPc' = IF Tail(retry_indices) = <<>> THEN "idle" ELSE "retry"
  /\ UNCHANGED <<futures, processCalls>>
  /\ UNCHANGED <<cacheVars, jobVars, sseVars, execVars, storeVars, clockVars, memVars, agentVars, lockVars, bucketVars>>

NextChunk ==
  \/ ProcessChunksStart
  \/ \E i \in ChunkIndices : ProcessSingleChunk(i)
  \/ \E i \in ChunkIndices, ok \in BOOLEAN : ChunkFunction(i, ok)
  \/ \E i \in ChunkIndices : CollectResult(i)
  \/ HandleRetries
  \/ RetryBegin
  \/ \E ok \in BOOLEAN : RetryEnd(ok)

Init == InitCache /\ InitJobs /\ InitSse /\ InitExec /\ InitStore /\ InitClock /\ InitMem /\ InitAgent /\ InitLock /\ InitBucket /\ InitChunk

SpecCache == Init /\ [][NextCache]_vars

Next == NextJobs

Spec == Init /\ [][Next]_vars

SpecExec == Init /\ [][NextExec]_vars

SpecStore == Init /\ [][NextStore]_vars

SpecTtl == Init /\ [][NextTtl]_vars

SpecMem == Init /\ [][NextMem]_vars

SpecAgent == Init /\ [][NextAgent]_vars

SpecLock == Init /\ [][NextLock]_vars

SpecBucket == Init /\ [][NextBucket]_vars

SpecChunk == Init /\ [][NextChunk]_vars

\* The event loop runs every ready Task and every pool thread runs on.
SpecExecFair ==
  /\ Init /\ [][NextExec]_vars
  /\ \A j \in ExecIds :
       /\ WF_vars(ExecuteFirstStep(j))
       /\ WF_vars(ExecuteResume(j))
       /\ WF_vars(\E outcome \in {"returned", "raised"} : WorkerFinish(j, outcome))
       /\ WF_vars(WorkerProgress(j))

\* The steps of run_trailtag_job for job j, pipeline included.
DriverStep(j) ==
  \/ DriverStart(j) \/ DriverRunning(j) \/ KickoffStart(j) \/ TaskCallback(j)
  \/ (\E kind \in {"pydantic", "raw"} : FinalCallback(j, kind))
  \/ StoreMapRoutes(j) \/ KickoffReturn(j) \/ KickoffRaise(j)
  \/ GuardrailReject(j)
  \/ DriverDone(j) \/ DriverStore(j) \/ DriverFail(j) \/ DriverUnmap(j)

\* The worker thread of a background task keeps running and the event loop
\* keeps resuming the stream's generator after each sleep.
SpecFair ==
  /\ Init /\ [][Next]_vars
  /\ \A j \in JobIds : WF_vars(DriverStep(j))
  /\ WF_vars(SsePoll)

(***************************************************************************)
(* Claims                                                                  *)
(***************************************************************************)

\* C1: after delete(k), get(k) returns null and exists(k) is false until the
\* next set(k, .), however many set(k, .) calls preceded the delete.
C1_DeleteMasksGet ==
  \A k \in CacheKeys :
    lastOp[k] = "delete" => (Get(memories, k) = None /\ ~Exists(memories, k))

\* C2: get(k) returns the value of the most recent set(k, .) when no delete
\* followed it (for values that survive the round trip: non-empty, not JSON
\* text).
C2_GetReturnsLatest ==
  \A k \in CacheKeys :
    (lastOp[k] = "set" /\ lastSet[k] \in {Str("a"), Str("b"), Dict("d1")})
      => Get(memories, k) = lastSet[k]

\* The records written under job:{j}, oldest first.
JobLog(j) == [i \in 1..Len(file[JobKey(j)]) |-> Decode(file[JobKey(j)][i].content)]

\* The record most recently written under job:{j}.
LastJob(j) == JobLog(j)[Len(JobLog(j))]

\* GET /api/videos/{video_id}/job: the job id the by-video query answers
\* with, "404" when the mapping or the job record is not found.
JobByVideo(v) ==
  LET mapped == CacheGet(LoadMemories(file), VideoJobKey(v))
  IN  IF mapped = None THEN "404"
      ELSE IF CacheGet(LoadMemories(file), JobKey(mapped.s)) = None THEN "404"
      ELSE mapped.s

\* C3: if the driver writes status done to job:{job_id} while a stream that
\* found the job when it was opened is still open, the stream eventually
\* emits a completed event (and closes).
C3_StreamCompletes ==
  (sseDoneSeen /\ ssePc = "open" /\ Len(sseMem) > 0)
    ~> ("completed" \in sseSent /\ ssePc = "closed")

\* C4: at every moment at most one job per video_id is in a non-terminal
\* state (queued or running).
C4_OneActiveJobPerVideo ==
  \A v \in Videos :
    Cardinality({j \in JobIds : /\ jobVideo[j] = v
                                /\ Len(JobLog(j)) > 0
                                /\ LastJob(j).status \in {"queued", "running"}}) <= 1

\* C5: once a job is terminal and run_trailtag_job's terminal handling has
\* run, the by-video query no longer yields that job.
C5_MappingGoneAfterTerminal ==
  \A j \in JobIds : pc[j] = "finished" => JobByVideo(jobVideo[j]) # j

\* The stage of the three-phase pipeline a phase label belongs to; the
\* labels written before the first task completes count as the first stage.
PhaseOrdinal(phase) ==
  IF phase = "none" THEN 0
  ELSE IF phase \in {"summary_completed"} THEN 2
  ELSE IF phase \in {"geocode_completed", "geocode"} THEN 3
  ELSE 1

\* (phase_ordinal, progress) does not decrease from record a to record b.
NonDecreasing(a, b) ==
  \/ PhaseOrdinal(a.phase) < PhaseOrdinal(b.phase)
  \/ PhaseOrdinal(a.phase) = PhaseOrdinal(b.phase) /\ a.progress <= b.progress

\* C6: the (phase_ordinal, progress) values successively written to
\* job:{job_id} are non-decreasing, except that progress may drop to 0 on
\* the transition to failed.
C6_ProgressMonotonic ==
  \A j \in JobIds : \A i \in 1..(Len(JobLog(j)) - 1) :
    \/ NonDecreasing(JobLog(j)[i], JobLog(j)[i + 1])
    \/ JobLog(j)[i + 1].status = "failed" /\ JobLog(j)[i + 1].progress = 0

\* C7: once a record with a terminal status has been written for a job, no
\* later write changes that job's status.
C7_TerminalStatusStable ==
  \A j \in JobIds : \A i \in 1..(Len(JobLog(j)) - 1) :
    JobLog(j)[i].status \in TerminalStatus
      => JobLog(j)[i + 1].status = JobLog(j)[i].status

\* C8: whenever a record with status done and cached=false has been written
\* under job:{job_id}, analysis:{video_id} is readable and holds the
\* pipeline's MapVisualization.
C8_DoneImpliesResult ==
  \A j \in JobIds : \A i \in 1..Len(JobLog(j)) :
    (JobLog(j)[i].status = "done" /\ ~JobLog(j)[i].cached)
      => CacheGet(LoadMemories(file), AnalysisKey(jobVideo[j])) = MapOf(jobVideo[j])

\* The status changes the lifecycle allows for one ExecutionJob.
Lifecycle ==
  {<<"pending", "running">>, <<"running", "completed">>,
   <<"running", "failed">>, <<"running", "cancelled">>}

\* C9: the status of each ExecutionJob changes only along pending -> running
\* -> {completed, failed, cancelled}; a job starts pending, never reaches
\* completed without having been running, never moves backwards and never
\* leaves a terminal status.
C9_StatusLifecycle ==
  [][\A j \in ExecIds :
       IF exGen'[j] # exGen[j]
       THEN exStatus'[j] = "pending"
       ELSE exStatus'[j] = exStatus[j] \/ <<exStatus[j], exStatus'[j]>> \in Lifecycle]_vars

\* The second ExecutionJob created under a job id went pending -> running ->
\* cancelled.
C9_Witness ==
  \E j \in ExecIds :
    /\ exGen[j] = 2
    /\ exStatus[j] = "cancelled"
    /\ Len(worker[j]) = 2

\* The record most recently stored under job:{job_id} by the executor.
LastStored(j) == Decode(exStore[j][Len(exStore[j])].content)

\* C10: if cancel(job_id) returns true, the job eventually has status
\* cancelled, that status is the one stored under job:{job_id}, and the job
\* is no longer in the running table - also when cancel is called before
\* the job's task has taken its first step.
C10_CancelTakesEffect ==
  \A j \in ExecIds :
    cancelTrue[j] ~> (/\ exStatus[j] = "cancelled"
                      /\ LastStored(j).status = "cancelled"
                      /\ j \notin running_jobs)

\* C11: after cancel(job_id) has returned true, the workflow of that job
\* starts no further phase and makes no further progress or status write
\* under job:{job_id}.
C11_NoWritesAfterCancel ==
  [][\A j \in ExecIds :
       (cancelTrue[j] /\ exGen'[j] = exGen[j]) => pipeStore'[j] = pipeStore[j]]_vars

\* C12: when save() calls run concurrently, from threads of one instance or
\* from instances sharing the storage path, every entry whose save() has
\* returned is in the snapshot once no save is in progress.
C12_NoLostEntry ==
  (\A c \in Callers : svPc[c] = "idle")
    => \A id \in svReturned : \E i \in 1..Len(snapshot) : snapshot[i] = id

\* The number of entries saved for key k (set and delete calls).
EntriesFor(k) ==
  Cardinality({i \in 1..Len(memories) : memories[i].key = GenerateKey(k)})

\* C13: for a key with no earlier entries, set(k, v) followed by get(k)
\* returns v, for every JSON-serializable v: objects, numbers, booleans,
\* null and strings, the empty string and JSON text included.
C13_SetGetRoundTrip ==
  \A k \in CacheKeys :
    (lastOp[k] = "set" /\ EntriesFor(k) = 1) => Get(memories, k) = lastSet[k]

\* C14: when the metadata output lacks subtitles on every attempt, the task
\* is retried at most max_retries times and the job's record then has status
\* failed with error.type = "validation" and a message naming the field.
C14_GuardrailFailsValidation ==
  \A j \in JobIds :
    /\ retry_count[j] <= max_retries
    /\ (/\ Len(JobLog(j)) > 0
        /\ LastJob(j).status = "failed"
        /\ LastJob(j).error.message = ExcStr("guardrail"))
         => LastJob(j).error.type = "validation"

\* The failure record of the except branch of run_trailtag_job.
IsFailureRecord(rec) ==
  /\ rec.status = "failed"
  /\ rec.phase = "geocode"
  /\ rec.progress = 0
  /\ rec.error.type = "exception"
  /\ rec.error.message \in {ExcStr("guardrail"), ExcStr("error")}

\* C15: if the pipeline invocation raised, then once run_trailtag_job has
\* returned the last record written for the job is failed / geocode / 0 with
\* error {type: "exception", message: str(exc)}, and video_job:{video_id} is
\* deleted (reads as absent).
C15_ExceptionRecord ==
  \A j \in JobIds :
    (pc[j] = "finished" /\ LastJob(j).status # "done")
      => /\ IsFailureRecord(LastJob(j))
         /\ CacheGet(LoadMemories(file), VideoJobKey(jobVideo[j])) = None

\* analysis:{video_id} reads as present in the shared cache.
AnalysisCached(v) ==
  CacheGet(LoadMemories(file), AnalysisKey(v)) # None

C17_NoSubtitlesNoTrace ==
  [][\A v \in Videos :
       (/\ ~AnalysisCached(v)
        /\ \/ AnalyzeNoSubtitles(v, FALSE)
           \/ AnalyzeCached(v, FALSE)
           \/ AnalyzeNew(v, FALSE))
         => /\ resp'.code = 422
            /\ UNCHANGED <<file, submitted, jobVideo, pc, dmem>>]_vars

C17_Witness ==
  /\ resp.code = 422
  /\ ~AnalysisCached(resp.video_id)

\* The entry most recently written under job:{j}.
LastJobEntry(j) == file[JobKey(j)][Len(file[JobKey(j)])]

\* C18: a GET /api/jobs/{job_id} made after the job's terminal write answers
\* 200 while fewer than 60 seconds have passed since that write, and 404 from
\* then on.
C18_TerminalJobExpires ==
  \A j \in JobIds :
    (/\ getResp.code # 0
     /\ getResp.job_id = j
     /\ Len(JobLog(j)) > 0
     /\ LastJob(j).status \in TerminalStatus
     /\ getResp.at > LastJobEntry(j).stored_at)
      => IF getResp.at < LastJobEntry(j).stored_at + TerminalTtl
         THEN getResp.code = 200
         ELSE getResp.code = 404

\* The event types that end a stream.
TerminalEvents == {"completed", "error"}

\* The positions of terminal events among the events of one iteration.
TerminalAt(evs) == {i \in 1..Len(evs) : evs[i] \in TerminalEvents}

\* C19: on a stream at most one terminal event (completed or error) is
\* emitted and no event of any type follows it: while the stream stays open
\* no terminal event has been sent, the iteration that closes it yields
\* exactly one terminal event as its last event, and a closed stream yields
\* nothing more.
C19_OneTerminalEvent ==
  [][/\ ssePc' = "open" => sseSent' \cap TerminalEvents = {}
     /\ (ssePc = "open" /\ ssePc' = "closed")
          => /\ sseSent \cap TerminalEvents = {}
             /\ TerminalAt(sseIter') = {Len(sseIter')}
     /\ ssePc = "closed" => UNCHANGED <<ssePc, sseIter, sseSent>>]_vars

C19_Witness ==
  /\ ssePc = "closed"
  /\ sseIter = <<"phase_update", "completed">>

\* C20: every polling iteration of a stream yields a heartbeat event,
\* whatever the job's status and whatever else the iteration yields.
C20_HeartbeatEveryIteration ==
  sseIter # <<>> => \E i \in 1..Len(sseIter) : sseIter[i] = "heartbeat"

\* An event of type t is among the events evs of one iteration.
HasEvent(evs, t) == \E i \in 1..Len(evs) : evs[i] = t

\* C21: an iteration that finds the job yields phase_update exactly when the
\* job's (phase, progress) differs from (last_phase, last_progress), the pair
\* of the previous phase_update of the stream (unset before the first one);
\* the pair is remembered exactly when it is sent, so two consecutive
\* phase_update events never carry the same pair.
C21_PhaseUpdateOnChange ==
  [][SsePoll =>
       LET job == Get(sseMem, JobKey(sseJob))
       IN  job # None =>
             /\ HasEvent(sseIter', "phase_update") <=> <<job.phase, job.progress>> # sseLast
             /\ HasEvent(sseIter', "phase_update")
                  => (sseLast' = <<job.phase, job.progress>> /\ sseLast' # sseLast)
             /\ ~HasEvent(sseIter', "phase_update") => sseLast' = sseLast]_vars

C21_Witness ==
  /\ ssePc = "open"
  /\ sseIter = <<"heartbeat">>
  /\ "phase_update" \in sseSent

\* C22: a stream opened for a job id with no job record yields exactly one
\* error event, nothing before it, and closes.
C22_MissingJobOneError ==
  [][(SsePoll /\ Get(sseMem, JobKey(sseJob)) = None)
       => /\ sseIter' = <<"error">>
          /\ sseSent = {}
          /\ sseSent' = {"error"}
          /\ ssePc' = "closed"]_vars

C22_Witness ==
  /\ ssePc = "closed"
  /\ sseSent = {"error"}
  /\ Len(file[JobKey(sseJob)]) = 0

\* C23: a submit with a job id that was already used for a submitted job,
\* running or finished, fails: no job id ever gets a second accepted submit
\* or a second run_crew execution.
C23_NoSecondExecution ==
  \A j \in ExecIds : exGen[j] <= 1 /\ Len(worker[j]) <= 1

\* C24: get_running_jobs() never reports more than max_concurrent_jobs jobs.
C24_RunningJobsBounded ==
  Cardinality(GetRunningJobs) <= max_concurrent_jobs

\* C25: once a job's workflow has returned successfully and the job has been
\* marked completed and removed from the running table, get_job_status
\* answers completed (from the cache).
C25_CompletedStaysCompleted ==
  \A j \in ExecIds :
    (exStatus[j] = "completed" /\ j \notin running_jobs)
      => ExecutorJobStatus(j) = "completed"

\* C26: every persisted job entry has updated_at >= created_at, entries
\* written by save_job_progress included.
C26_UpdatedNotBeforeCreated ==
  \A j \in MemJobs :
    LoadedJobs[j] # None => LoadedJobs[j].updated_at >= LoadedJobs[j].created_at

\* C27: every job record with status done has progress 100, whichever
\* writer stored it (cache-hit handler, workflow driver, phase callback).
C27_DoneHasFullProgress ==
  \A j \in JobIds :
    \A i \in 1..Len(JobLog(j)) :
      JobLog(j)[i].status = "done" => JobLog(j)[i].progress = 100

\* Done records of the three writers are in the file: the phase callback's
\* and the driver's for one job, the cache-hit handler's for another.
C27_Witness ==
  \E j1, j2 \in JobIds :
    /\ \E i \in 1..Len(JobLog(j1)) :
         JobLog(j1)[i].status = "done" /\ JobLog(j1)[i].phase = "geocode_completed"
    /\ \E i \in 1..Len(JobLog(j1)) :
         JobLog(j1)[i].status = "done" /\ JobLog(j1)[i].phase = "geocode"
    /\ \E i \in 1..Len(JobLog(j2)) :
         JobLog(j2)[i].status = "done" /\ JobLog(j2)[i].cached

\* The values of the Phase enumeration, and null.
PhaseEnum == {"metadata", "summary", "geocode", "processing", "none"}

\* C28: every phase written to a record under job:{job_id} is one of
\* metadata, summary, geocode, processing or null.
C28_PhaseInEnum ==
  \A j \in JobIds :
    \A i \in 1..Len(JobLog(j)) : JobLog(j)[i].phase \in PhaseEnum


\* C29: after save_job_progress(job_id, video_id, status, phase, progress)
\* get_job_progress(job_id) returns an entry with exactly that job_id,
\* video_id, status, phase and progress; a later save for the same job_id
\* replaces the entry, and no save touches the entry of another job.
C29_SaveThenGet ==
  [][SaveJobProgress =>
       LET j == mgrArgs.job_id
           e == job_memories'[j]
       IN  /\ e # None
           /\ e.job_id = j
           /\ e.video_id = mgrArgs.video_id
           /\ e.status = mgrArgs.args.status
           /\ e.phase = mgrArgs.args.phase
           /\ e.progress = mgrArgs.args.progress
           /\ \A i \in MemJobs \ {j} : job_memories'[i] = GetJobProgress(i)]_vars

\* m1 was saved after m2, at a later time: each job reads back its own values.
C29_Witness ==
  /\ mgrPc = "idle"
  /\ GetJobProgress("m1") # None
  /\ GetJobProgress("m1").progress = 100
  /\ GetJobProgress("m1").updated_at > 0
  /\ GetJobProgress("m2") # None
  /\ GetJobProgress("m2").progress = 50

\* C30: after any sequence of completed save and reset operations, a new
\* manager over the same storage path holds what the running one holds: the
\* same total_entries and the same job progress entries.
C30_ReloadSeesSameEntries ==
  mgrPc = "idle" =>
    /\ LoadedTotalEntries = TotalEntries
    /\ \A j \in MemJobs : LoadedJobs[j] = GetJobProgress(j)


\* The four families of the memory manager, each with its file.
JobFamily == <<job_memories, jobFile>>
AnalysisFamily == <<analysis_results, analysisFile>>
AgentFamily == <<agent_memories, agentFile>>
StorageFamily == <<mgrMemories, memFile, crewDir>>

\* C31: reset_memories("job") removes every job progress entry and leaves
\* the analysis results, the agent memories and the storage backend's
\* entries unchanged; the resets of "analysis", "agent" and "crew" likewise
\* empty their own family and leave the other three alone.
C31_SelectiveReset ==
  [][/\ ResetMemories("job") =>
          /\ \A j \in MemJobs : GetJobProgress(j)' = None
          /\ UNCHANGED <<AnalysisFamily, AgentFamily, StorageFamily>>
     /\ ResetMemories("analysis") =>
          /\ analysis_results' = {}
          /\ UNCHANGED <<JobFamily, AgentFamily, StorageFamily>>
     /\ ResetMemories("agent") =>
          /\ \A r \in AgentRoles : agent_memories'[r] = <<>>
          /\ UNCHANGED <<JobFamily, AnalysisFamily, StorageFamily>>
     /\ ResetMemories("crew") =>
          /\ mgrMemories' = {}
          /\ UNCHANGED <<JobFamily, AnalysisFamily, AgentFamily>>]_vars

\* The storage backend was filled and then reset on its own (crew_memory
\* still exists), while the three other families hold entries.
C31_Witness ==
  /\ mgrSaves = MaxStorageSaves
  /\ mgrMemories = {}
  /\ crewDir
  /\ \E j \in MemJobs : GetJobProgress(j) # None
  /\ analysis_results # {}
  /\ \E r \in AgentRoles : agent_memories[r] # <<>>


\* The words of a text: its maximal runs without a space.
WordsOf(s) ==
  {SubSeq(s, i, j) : <<i, j>> \in
     {ij \in (1..Len(s)) \X (1..Len(s)) :
        /\ ij[1] <= ij[2]
        /\ \A k \in ij[1]..ij[2] : s[k] # " "
        /\ (ij[1] = 1 \/ s[ij[1] - 1] = " ")
        /\ (ij[2] = Len(s) \/ s[ij[2] + 1] = " ")}}

\* C32: query_agent_memories(role, q, limit) returns a stored memory of
\* that role whenever its context contains every word of q, without regard
\* to case, word order or adjacency (here with the default limit of 10,
\* which is above the number of stored entries).
C32_QueryMatchesEveryWord ==
  \A r \in AgentRoles, q \in AgentQueries :
    \A i \in 1..Len(agent_memories[r]) :
      LET m == agent_memories[r][i]
          found == QueryAgentMemories(r, q, 10)
      IN  (\A w \in WordsOf(Lower(q)) : Contains(w, Lower(m.context)))
            => \E k \in 1..Len(found) : found[k] = m


\* C33: the storage backend's search returns only undeleted entries: an
\* entry marked deleted (a tombstone) is never among the results.
C33_SearchSkipsTombstones ==
  \A q \in SearchQueries, thr \in ScoreThresholds :
    LET results == Search(memories, q, 10, thr)
    IN  \A k \in 1..Len(results) : ~results[k].deleted


\* A thread that cannot go on by itself: it waits for the lock or for the
\* worker threads of the pool.
LockBlocked(t) ==
  \/ lkPc[t] \in {"want", "want_nested"} /\ ~CanAcquire(t)
  \/ lkPc[t] = "pool_wait" /\ lkWorkers # {}

\* C34: no execution deadlocks on the executor's lock: the thread that
\* holds the lock is never itself blocked, so every holder goes on to
\* release it, and whenever some thread is blocked some step can be taken.
\* (The cache facade, the memory manager and the storage backend take no
\* lock, so the executor's lock is the only one in the order.)
C34_NoDeadlock ==
  /\ \A t \in Threads : lockOwner = t => ~LockBlocked(t) /\ lkPc[t] # "pool_wait"
  /\ (\E t \in Threads : LockBlocked(t)) => ENABLED NextLock

\* shutdown holds the lock and is about to take it again inside its own
\* cancel_job, while the other thread waits for it.
C34_Witness ==
  \E t, u \in Threads :
    /\ lockOwner = t
    /\ lkOpn[t] = "shutdown"
    /\ lkPc[t] = "want_nested"
    /\ lkPc[u] = "want"
    /\ LockBlocked(u)


\* The requests admitted at the instants a..b.
RECURSIVE AdmittedIn(_, _)
AdmittedIn(a, b) == IF a > b THEN 0 ELSE bkAdmitted[a] + AdmittedIn(a + 1, b)

\* In any window of T seconds (T = (b - a) ticks) at most burst + rate * T
\* requests were admitted.
WindowBound ==
  \A a \in 0..bkNow : \A b \in a..bkNow :
    AdmittedIn(a, b) * TicksPerSecond <= burst * TicksPerSecond + rate * (b - a)

\* A denied request takes no token and returns null: nothing but the
\* refill and the time stamp changes, and nothing is admitted.
DeniedTakesNothing ==
  \A c \in BucketCallers :
       (Consume(c) /\ bkResult'[c] = "null") =>
          /\ bkTokens' = Refilled(bkTokens, bkNow - bkTimestamp)
          /\ bkTokens' < OneToken
          /\ bkAdmitted' = bkAdmitted

\* C35: whatever the order of the callers, the bucket (rate 5 per second,
\* burst 10) admits at most 10 + 5*T requests in any window of T seconds,
\* and a denied request consumes no token and returns null.
C35_TokenBucket == []WindowBound /\ [][DeniedTakesNothing]_vars

\* The burst was spent at once, a request was denied, and after the refill
\* of two ticks one more was admitted.
C35_Witness ==
  /\ bkAdmitted[0] = burst
  /\ \E c \in BucketCallers : bkResult[c] = "null"
  /\ \E t \in 1..bkNow : bkAdmitted[t] > 0


\* ExecutionStatus values with which a job has ended.
ExecTerminal == {"completed", "failed", "cancelled"}

\* The records the executor has stored for job j, decoded.
ExecStored(j) == [i \in 1..Len(exStore[j]) |-> Decode(exStore[j][i].content)]

\* C36: every terminal outcome (completed, failed, cancelled) the executor
\* persists under job:{job_id} ends an open stream for the job: an iteration
\* of event_generator that reads the record yields a terminal event
\* (completed or error), whatever was sent before.
C36_TerminalRecordEndsStream ==
  \A j \in ExecIds : \A i \in 1..Len(exStore[j]) :
    LET rec == ExecStored(j)[i]
    IN  rec.status \in ExecTerminal =>
          \A last \in {<<"none", 0>>, <<rec.phase, rec.progress>>} :
            \E k \in 1..Len(IterEvents(rec, last)) :
              IterEvents(rec, last)[k] \in {"completed", "error"}


\* The (progress, phase) pairs handed to progress_cb for job j: only
\* _update_job_status calls it, right after storing the job, and submit_job
\* (the pending record) stores without it.
ProgressCbCalls(j) ==
  {<<ExecStored(j)[i].progress, ExecStored(j)[i].phase>> :
     i \in {k \in 1..Len(exStore[j]) : ExecStored(j)[k].status # "pending"}}

\* The (progress, phase) pairs stored under job:{job_id}, by the executor
\* or by the pipeline.
PersistedProgress(j) ==
  {<<ExecStored(j)[i].progress, ExecStored(j)[i].phase>> : i \in 1..Len(exStore[j])}
    \cup {<<Decode(pipeStore[j][i].content).progress, Decode(pipeStore[j][i].content).phase>> :
            i \in 1..Len(pipeStore[j])}

\* C37: every progress report (progress, phase) a workflow has made through
\* the executor's callback from its worker thread is, once the job has
\* ended, persisted under job:{job_id} and was delivered to
\* progress_cb(job_id, progress, phase).
C37_ReportsDelivered ==
  \A j \in ExecIds :
    (/\ job_futures[j] = "absent"
     /\ j \notin running_jobs
     /\ \A g \in 1..Len(worker[j]) : worker[j][g] # "running")
    => \A g \in 1..Len(workerPhase[j]) : \A n \in 1..workerPhase[j][g] :
         LET report == <<PipelineWrites[n].progress, PipelineWrites[n].phase>>
         IN  /\ report \in PersistedProgress(j)
             /\ report \in ProgressCbCalls(j)


\* The snapshot a new CacheManager loads holds entry id.
InSnapshot(id) == \E i \in 1..Len(snapshot) : snapshot[i] = id

\* C38: whenever video_job:{video_id} resolves to a job_id, the record
\* job:{job_id} exists.  analyze_video saves the job record and then the
\* mapping, two save() calls of one caller in this order, and
\* get_job_by_video reads both through a new CacheManager, that is from the
\* snapshot: a caller's second entry (the mapping) is never there without
\* its first (the job record).
C38_NoDanglingMapping ==
  \A c \in Callers : InSnapshot(EntryId(c, 2)) => InSnapshot(EntryId(c, 1))


\* The Task of job j has ended: it was created and is neither waiting to
\* start nor suspended at the await.
TaskEnded(j) == exGen[j] > 0 /\ job_futures[j] \notin {"created", "waiting"}

\* C39: after an executor job has finished (completed, failed or
\* cancelled) its final state has been persisted and it is in neither
\* running_jobs nor job_futures; between operations the two tables have
\* the same keys.
C39_TablesCleaned ==
  /\ \A j \in ExecIds :
       TaskEnded(j) =>
         /\ j \notin running_jobs
         /\ job_futures[j] = "absent"
         /\ LastStored(j).status \in ExecTerminal
  /\ \A j \in ExecIds : j \in running_jobs <=> job_futures[j] # "absent"

\* A call of process_chunks_with_function has returned.
ProcessReturned == trackerPc = "idle" /\ processCalls > 0

\* C40: process_chunks_with_function ends with every chunk COMPLETED or
\* FAILED (a call under way can always take a step, and after its return no
\* chunk is in another state), it calls the processing function at most
\* twice for a chunk, and no chunk's retry_count is ever above max_retries.
C40_ChunksFinishWithinRetries ==
  /\ trackerPc # "idle" => ENABLED NextChunk
  /\ ProcessReturned =>
       \A i \in ChunkIndices : chunk_progresses[i].status \in {"completed", "failed"}
  /\ \A i \in ChunkIndices : invocations[i] <= 2
  /\ \A i \in ChunkIndices : chunk_progresses[i].retry_count <= chunk_max_retries


====
